---- MODULE Spec2Model ----
(***************************************************************************)
(* A model of the field lifecycle of fastforms (src/fastforms/fields/      *)
(* core.py): Field.process / Field.validate for the scalar field kinds,    *)
(* the repeating FieldList (process, append_entry, pop_entry, validate)    *)
(* and the FormField that encloses a form (process, validate).             *)
(*                                                                         *)
(* Python values are tagged tuples, so that values of different Python     *)
(* types can be compared (2 == "2" is False, not an error).  Wire strings  *)
(* and names are sequences of one-character strings, so that startswith,   *)
(* slicing, split, isdigit, int() and '%d' are computed, not assumed.      *)
(***************************************************************************)
EXTENDS Integers, Sequences, FiniteSets, TLC

----------------------------------------------------------------------------
(* Bounds of the model *)

\* longest validator list declared on a scalar field
MaxChain == 2
\* longest extra_validators sequence handed to validate
MaxExtra == 1
\* largest index that occurs in a well-formed formdata key of the list
MaxIndex == 2
\* longest object-data sequence handed to FieldList.process
MaxData == 2
\* largest min_entries a FieldList is declared with
MaxMin == 3
\* largest max_entries a FieldList is declared with
MaxCap == 2
\* process and append_entry are not called once last_index reaches this
MaxLast == 3
\* most descriptors declared
MaxDecl == 2
\* most (key, value) pairs in a multidict handed in as formdata
MaxPairs == 3
\* the threads that call get_translations concurrently
MaxThreads == 2

----------------------------------------------------------------------------
(* Python values *)

None == <<"none">>
\* utils.unset_value: attr.NOTHING, patched to be falsy
Unset == <<"unset">>
VStr(s) == <<"str", s>>
VInt(n) == <<"int", n>>
VBool(b) == <<"bool", b>>
VList(xs) == <<"list", xs>>

IsStr(v) == v[1] = "str"

\* bool(value)
Truthy(v) ==
    CASE v[1] = "none" -> FALSE
      [] v[1] = "unset" -> FALSE
      [] v[1] = "str" -> v[2] # <<>>
      [] v[1] = "int" -> v[2] # 0
      [] v[1] = "bool" -> v[2]
      [] v[1] = "list" -> v[2] # <<>>

----------------------------------------------------------------------------
(* Strings: sequences of characters *)

Digits == <<"0", "1", "2", "3", "4", "5", "6", "7", "8", "9">>
DigitSet == {Digits[i] : i \in 1..10}
DigitVal(c) == (CHOOSE i \in 1..10 : Digits[i] = c) - 1

\* str.isdigit() on the ASCII alphabet of the model
IsDigitStr(s) == s # <<>> /\ \A i \in 1..Len(s) : s[i] \in DigitSet

RECURSIVE DigitsToNat(_, _)
DigitsToNat(s, acc) ==
    IF s = <<>> THEN acc ELSE DigitsToNat(Tail(s), 10 * acc + DigitVal(Head(s)))

\* '%d' % n
RECURSIVE NatToStr(_)
NatToStr(n) ==
    IF n < 10 THEN <<Digits[n + 1]>> ELSE NatToStr(n \div 10) \o <<Digits[(n % 10) + 1]>>
IntToStr(n) == IF n < 0 THEN <<"-">> \o NatToStr(0 - n) ELSE NatToStr(n)

\* int(s) for a str over the alphabet of the model (letters, digits, signs):
\* an optional sign, then decimal digits; anything else is a ValueError
IntParses(s) ==
    IF s # <<>> /\ Head(s) \in {"-", "+"} THEN IsDigitStr(Tail(s)) ELSE IsDigitStr(s)
IntParse(s) ==
    IF Head(s) = "-" THEN 0 - DigitsToNat(Tail(s), 0)
    ELSE IF Head(s) = "+" THEN DigitsToNat(Tail(s), 0)
    ELSE DigitsToNat(s, 0)

\* k.startswith(prefix)
StartsWith(k, prefix) ==
    Len(k) >= Len(prefix) /\ SubSeq(k, 1, Len(prefix)) = prefix

\* k[offset:]
SliceFrom(k, offset) == SubSeq(k, offset + 1, Len(k))

\* s.split('-', 1)[0]
RECURSIVE SplitFirst(_)
SplitFirst(s) ==
    IF s = <<>> \/ Head(s) = "-" THEN <<>> ELSE <<Head(s)>> \o SplitFirst(Tail(s))

----------------------------------------------------------------------------
(* Formdata: a multi-valued mapping given as an ordered list of            *)
(* (key, value) pairs behind WebobInputWrapper; NoFormdata is None.        *)

NoFormdata == <<"noformdata">>
Formdata(pairs) == <<"formdata", pairs>>
Pairs(fd) == fd[2]

\* formdata is not None
HasFormdata(fd) == fd # NoFormdata
\* bool(formdata): None is falsy, a wrapper is falsy when it has no pairs
FormdataTruthy(fd) == HasFormdata(fd) /\ Len(Pairs(fd)) > 0
\* name in formdata
Contains(fd, name) == \E i \in 1..Len(Pairs(fd)) : Pairs(fd)[i][1] = name

RECURSIVE GetAll(_, _)
GetAll(pairs, name) ==
    IF pairs = <<>> THEN <<>>
    ELSE IF Head(pairs)[1] = name THEN <<Head(pairs)[2]>> \o GetAll(Tail(pairs), name)
    ELSE GetAll(Tail(pairs), name)
\* only the first value of the key is returned
GetListFirstOnly(fd, name) ==
    IF GetAll(Pairs(fd), name) = <<>> THEN <<>> ELSE <<Head(GetAll(Pairs(fd), name))>>

\* formdata.getlist(name)
GetList(fd, name) == GetAll(Pairs(fd), name)
\* len(formdata)
FormdataLen(fd) == Len(Pairs(fd))
\* iter(formdata): the keys in pair order, repeats included
KeysOf(fd) == [i \in 1..Len(Pairs(fd)) |-> Pairs(fd)[i][1]]


----------------------------------------------------------------------------
(* Exceptions.  A hook either returns or raises; NoExc is a normal return. *)
(* Every ValueError of the model carries its message as args[0], as the    *)
(* ones raised by the field classes do.                                    *)

NoExc == <<"noexc">>
ValueError(msg) == <<"ValueError", msg>>
TypeError == <<"TypeError">>
AssertionError == <<"AssertionError">>
IndexError == <<"IndexError">>
AttributeError == <<"AttributeError">>
NameError == <<"NameError">>
IsValueError(e) == e[1] = "ValueError"

----------------------------------------------------------------------------
(* Validators and filters are callables supplied by the declaration.  The  *)
(* model declares fields with these four validators and three filters.     *)

\* returns when field.data is truthy, else raises ValueError
vNonEmpty == "vNonEmpty"
\* always raises ValueError("bad")
vErr == "vErr"
\* always raises StopValidation("halt")
vStop == "vStop"
\* always raises StopValidation() with no message
vStopQ == "vStopQ"
Validators == {vNonEmpty, vErr, vStop, vStopQ}

\* validator(form, field): "ok" is a normal return, "err" a ValueError with
\* message msg, "stop" a StopValidation whose args[0] is msg ("" when it
\* carries none)
CallValidator(v, f) ==
    CASE v = vNonEmpty ->
            IF Truthy(f.data) THEN [kind |-> "ok", msg |-> ""]
            ELSE [kind |-> "err", msg |-> "empty"]
      [] v = vErr -> [kind |-> "err", msg |-> "bad"]
      [] v = vStop -> [kind |-> "stop", msg |-> "halt"]
      [] v = vStopQ -> [kind |-> "stop", msg |-> ""]

\* lambda s: s[:1]          (other types pass through)
fFirst == "fFirst"
\* lambda s: s + 'X'        (other types pass through)
fAddX == "fAddX"
\* raises ValueError("rejected")
fReject == "fReject"

\* filter(data): the value returned, or the ValueError raised
CallFilter(flt, d) ==
    CASE flt = fFirst ->
            [exc |-> NoExc,
             val |-> IF IsStr(d) /\ Len(d[2]) > 1 THEN VStr(SubSeq(d[2], 1, 1)) ELSE d]
      [] flt = fAddX ->
            [exc |-> NoExc, val |-> IF IsStr(d) THEN VStr(d[2] \o <<"X">>) ELSE d]
      [] flt = fReject -> [exc |-> ValueError("rejected"), val |-> d]

----------------------------------------------------------------------------
(* Scalar fields.  A bound field is a record:                              *)
(*   kind           the field class: "Field", "String", "Integer",         *)
(*                  "Boolean" or "Select"                                  *)
(*   name           field_attrs.name, the wire key (_prefix + _name)       *)
(*   validators, filters, default    as declared                           *)
(*   coerce, choices                 SelectField only                      *)
(*   data, raw_data, object_data, process_errors, errors                   *)
(*   raised         history: the messages of the ValueErrors the hooks     *)
(*                  raised during the last process call                    *)

\* raw_data = None, the class attribute before any process with formdata
NoRaw == <<"noraw">>
Raw(xs) == <<"raw", xs>>

\* BooleanField.false_values, restricted to what a raw string can equal
sFalse == <<"f", "a", "l", "s", "e">>
FalseValues == {sFalse, <<>>}

\* the state of a field right after construction
NewField(kind, name, validators, filters, default, coerce, choices) ==
    [kind |-> kind, name |-> name, validators |-> validators, filters |-> filters,
     default |-> default, coerce |-> coerce, choices |-> choices,
     data |-> None, raw_data |-> NoRaw, object_data |-> Unset,
     process_errors |-> <<>>, errors |-> <<>>, raised |-> <<>>]

\* self.coerce(value): int or text_type
Coerce(c, v) ==
    IF c = "int" THEN
        CASE v[1] = "str" ->
                IF IntParses(v[2]) THEN [exc |-> NoExc, val |-> VInt(IntParse(v[2]))]
                ELSE [exc |-> ValueError("invalid literal for int()"), val |-> None]
          [] v[1] = "int" -> [exc |-> NoExc, val |-> v]
          [] v[1] = "bool" -> [exc |-> NoExc, val |-> VInt(IF v[2] THEN 1 ELSE 0)]
          [] OTHER -> [exc |-> TypeError, val |-> None]
    ELSE
        CASE v[1] = "str" -> [exc |-> NoExc, val |-> v]
          [] v[1] = "int" -> [exc |-> NoExc, val |-> VStr(IntToStr(v[2]))]
          [] v[1] = "bool" ->
                [exc |-> NoExc,
                 val |-> VStr(IF v[2] THEN <<"T", "r", "u", "e">>
                              ELSE <<"F", "a", "l", "s", "e">>)]
          [] OTHER -> [exc |-> NoExc, val |-> VStr(<<"N", "o", "n", "e">>)]

\* process_data(value): the field afterwards and the exception raised
ProcessData(f, value) ==
    CASE f.kind = "Boolean" ->
            [f |-> [f EXCEPT !.data = VBool(Truthy(value))], exc |-> NoExc]
      [] f.kind = "Select" ->
            LET c == Coerce(f.coerce, value)
            IN [f |-> [f EXCEPT !.data = IF c.exc = NoExc THEN c.val ELSE None],
                exc |-> NoExc]
      [] OTHER -> [f |-> [f EXCEPT !.data = value], exc |-> NoExc]

\* Field.process_formdata(valuelist)
BaseProcessFormdata(f, valuelist) ==
    [f |-> IF valuelist # <<>> THEN [f EXCEPT !.data = VStr(valuelist[1])] ELSE f,
     exc |-> NoExc]

\* StringField.process_formdata(valuelist)
StringProcessFormdata(f, valuelist) ==
    [f |-> [f EXCEPT !.data = IF valuelist # <<>> THEN VStr(valuelist[1]) ELSE VStr(<<>>)],
     exc |-> NoExc]

\* IntegerField.process_formdata(valuelist)
IntegerProcessFormdata(f, valuelist) ==
    IF valuelist = <<>> THEN [f |-> f, exc |-> NoExc]
    ELSE IF IntParses(valuelist[1])
    THEN [f |-> [f EXCEPT !.data = VInt(IntParse(valuelist[1]))], exc |-> NoExc]
    ELSE [f |-> [f EXCEPT !.data = None], exc |-> ValueError("Not a valid integer value")]

\* text_type(data)
TextType(v) == Coerce("text", v).val

\* value() renders the data and ignores the raw input
IntegerValueOfData(f) == IF f.data # None THEN TextType(f.data)[2] ELSE <<>>

\* IntegerField.value(): the string redisplayed
IntegerValue(f) ==
    IF f.raw_data # NoRaw /\ f.raw_data[2] # <<>> THEN f.raw_data[2][1]
    ELSE IF f.data # None THEN TextType(f.data)[2]
    ELSE <<>>

\* an omitted checkbox leaves the data as it was
BooleanProcessFormdataKeeps(f, valuelist) ==
    IF valuelist = <<>> THEN [f |-> f, exc |-> NoExc]
    ELSE [f |-> [f EXCEPT !.data = VBool(valuelist[1] \notin FalseValues)], exc |-> NoExc]

\* BooleanField.process_formdata(valuelist)
BooleanProcessFormdata(f, valuelist) ==
    IF valuelist = <<>> \/ valuelist[1] \in FalseValues
    THEN [f |-> [f EXCEPT !.data = VBool(FALSE)], exc |-> NoExc]
    ELSE [f |-> [f EXCEPT !.data = VBool(TRUE)], exc |-> NoExc]

\* data is reset to None when the value cannot be coerced
SelectProcessFormdataResets(f, valuelist) ==
    IF valuelist = <<>> THEN [f |-> f, exc |-> NoExc]
    ELSE LET c == Coerce(f.coerce, VStr(valuelist[1]))
         IN IF IsValueError(c.exc)
            THEN [f |-> [f EXCEPT !.data = None],
                  exc |-> ValueError("Invalid Choice: could not coerce")]
            ELSE [f |-> [f EXCEPT !.data = c.val], exc |-> c.exc]

\* SelectField.process_formdata(valuelist)
SelectProcessFormdata(f, valuelist) ==
    IF valuelist = <<>> THEN [f |-> f, exc |-> NoExc]
    ELSE LET c == Coerce(f.coerce, VStr(valuelist[1]))
         IN IF IsValueError(c.exc)
            THEN [f |-> f, exc |-> ValueError("Invalid Choice: could not coerce")]
            ELSE [f |-> [f EXCEPT !.data = c.val], exc |-> c.exc]

\* process_formdata(valuelist) of the field's class: the field afterwards
\* and the exception raised
ProcessFormdata(f, valuelist) ==
    CASE f.kind = "String" -> StringProcessFormdata(f, valuelist)
      [] f.kind = "Integer" -> IntegerProcessFormdata(f, valuelist)
      [] f.kind = "Boolean" -> BooleanProcessFormdata(f, valuelist)
      [] f.kind = "Select" -> SelectProcessFormdata(f, valuelist)
      [] OTHER -> BaseProcessFormdata(f, valuelist)

\* for filter in self.filters: self.data = filter(self.data)
RECURSIVE RunFilters(_, _)
RunFilters(f, filters) ==
    IF filters = <<>> THEN [f |-> f, exc |-> NoExc]
    ELSE LET r == CallFilter(Head(filters), f.data)
         IN IF r.exc # NoExc THEN [f |-> f, exc |-> r.exc]
            ELSE RunFilters([f EXCEPT !.data = r.val], Tail(filters))

\* the message replaces process_errors
CaptureOverwrites(f, exc) ==
    IF IsValueError(exc) THEN [f EXCEPT !.process_errors = <<exc[2]>>] ELSE f

\* except ValueError as e: self.process_errors.append(e.args[0])
Capture(f, exc) ==
    IF IsValueError(exc) THEN [f EXCEPT !.process_errors = Append(@, exc[2])] ELSE f

\* history only: the message of a raised ValueError joins f.raised
Note(f, exc) == IF IsValueError(exc) THEN [f EXCEPT !.raised = Append(@, exc[2])] ELSE f

\* a hook ran inside try ... except ValueError; r is what it left and raised
Caught(r) == Note(Capture(r.f, r.exc), r.exc)

\* data = self.default() if callable, else self.default, when data is unset
ResolveData(f, data) == IF data = Unset THEN f.default ELSE data

\* self.process_errors = []; ...; self.object_data = data
BeginProcess(f, d) ==
    [f EXCEPT !.process_errors = <<>>, !.object_data = d, !.raised = <<>>]

\* try: self.process_data(data)
DataStep(f, d) == Caught(ProcessData(BeginProcess(f, d), d))

\* self.raw_data = formdata.getlist(name) if name in formdata else []
SetRawData(f, fd) ==
    [f EXCEPT !.raw_data = Raw(IF Contains(fd, f.name) THEN GetList(fd, f.name) ELSE <<>>)]

\* try: self.process_formdata(self.raw_data)
FormdataHook(f) == Caught(ProcessFormdata(f, f.raw_data[2]))

\* if formdata is not None: ...
FormdataStep(f, fd) == IF HasFormdata(fd) THEN FormdataHook(SetRawData(f, fd)) ELSE f

\* the filters are applied last to first
FilterStepReversed(f) ==
    Caught(RunFilters(f, [i \in 1..Len(f.filters) |-> f.filters[Len(f.filters) + 1 - i]]))

\* try: for filter in self.filters: ...
FilterStep(f) == Caught(RunFilters(f, f.filters))

\* Field.process(formdata, data)
FieldProcess(f, fd, data) ==
    FilterStep(FormdataStep(DataStep(f, ResolveData(f, data)), fd))

----------------------------------------------------------------------------
(* Validation of a scalar field.  A validation result is a record          *)
(*   errors   the errors list so far                                       *)
(*   stopped  whether StopValidation was raised                            *)
(*   calls    history: the validators invoked, in order                    *)

\* Python ==, on values of the model
PyEq(a, b) == a = b

Returned == [kind |-> "ok", msg |-> ""]

\* the field classes that override the hooks of validate: pre_validate
\* raises StopValidation("prehalt"), StopValidation() or ValueError("pre"),
\* or is left alone; post_validate of each of them raises
\* ValueError("post-stopped") when handed validation_stopped = True and
\* ValueError("post") otherwise
HookKinds == {"PreStops", "PreStopsQuietly", "PreFails", "PostReports"}

\* pre_validate(form): a no-op except in SelectField and in the classes
\* that override it; an outcome as for CallValidator
PreValidate(f) ==
    CASE f.kind = "Select" ->
            IF \E i \in 1..Len(f.choices) : PyEq(f.data, f.choices[i][1])
            THEN Returned ELSE [kind |-> "err", msg |-> "Not a valid choice"]
      [] f.kind = "PreStops" -> [kind |-> "stop", msg |-> "prehalt"]
      [] f.kind = "PreStopsQuietly" -> [kind |-> "stop", msg |-> ""]
      [] f.kind = "PreFails" -> [kind |-> "err", msg |-> "pre"]
      [] OTHER -> Returned

\* post_validate(form, validation_stopped): a no-op except in the classes
\* that override it
PostValidate(f, stopped) ==
    IF f.kind \in HookKinds
    THEN [kind |-> "err", msg |-> IF stopped THEN "post-stopped" ELSE "post"]
    ELSE Returned

\* the errors of the previous validation are kept
SeedErrorsKept(f) == f.errors \o f.process_errors

\* self.errors = list(self.process_errors)
SeedErrors(f) == f.process_errors

\* Field._run_validation_chain(form, validators), started with errors errs
RECURSIVE RunValidationChain(_, _, _, _)
RunValidationChain(f, chain, errs, calls) ==
    IF chain = <<>> THEN [errors |-> errs, stopped |-> FALSE, calls |-> calls]
    ELSE LET o == CallValidator(Head(chain), [f EXCEPT !.errors = errs])
             c2 == Append(calls, Head(chain))
         IN CASE o.kind = "stop" ->
                    [errors |-> IF o.msg # "" THEN Append(errs, o.msg) ELSE errs,
                     stopped |-> TRUE, calls |-> c2]
              [] o.kind = "err" ->
                    RunValidationChain(f, Tail(chain), Append(errs, o.msg), c2)
              [] OTHER -> RunValidationChain(f, Tail(chain), errs, c2)

\* return len(self.errors) == 0
Verdict(errs) == Len(errs) = 0

\* try: self.pre_validate(form): pre is its outcome, e0 the errors so far
PreStep(e0, pre) ==
    [errors |-> IF pre.kind = "err" \/ (pre.kind = "stop" /\ pre.msg # "")
                THEN Append(e0, pre.msg) ELSE e0,
     stopped |-> pre.kind = "stop", calls |-> <<>>]

\* the extra validators run before the field's own
ChainStepExtraFirst(f, extra, p) ==
    IF p.stopped THEN p ELSE RunValidationChain(f, extra \o f.validators, p.errors, <<>>)

\* if not stop_validation: run self.validators and extra_validators
ChainStep(f, extra, p) ==
    IF p.stopped THEN p ELSE RunValidationChain(f, f.validators \o extra, p.errors, <<>>)

\* try: self.post_validate(form, stop_validation): post is its outcome
PostStep(ch, post) ==
    [ch EXCEPT !.errors = IF post.kind = "err" THEN Append(@, post.msg) ELSE @]

\* validate returns whether the validation was not stopped
ValidatedUnlessStopped(f, v) ==
    [f |-> [f EXCEPT !.errors = v.errors], ok |-> ~v.stopped,
     calls |-> v.calls, stopped |-> v.stopped]

\* validate moves the process errors into errors
ValidatedDrains(f, v) ==
    [f |-> [f EXCEPT !.errors = v.errors, !.process_errors = <<>>],
     ok |-> Verdict(v.errors), calls |-> v.calls, stopped |-> v.stopped]

\* the field with its errors, the value returned, the history of the call
Validated(f, v) ==
    [f |-> [f EXCEPT !.errors = v.errors], ok |-> Verdict(v.errors),
     calls |-> v.calls, stopped |-> v.stopped]

\* post_validate is skipped when the validation was stopped
PostStepOfUnlessStopped(f, ch) ==
    IF ch.stopped THEN ch
    ELSE PostStep(ch, PostValidate([f EXCEPT !.errors = ch.errors], ch.stopped))

\* post_validate is called with the field as the chain left it
PostStepOf(f, ch) == PostStep(ch, PostValidate([f EXCEPT !.errors = ch.errors], ch.stopped))

ValidateFrom(f, extra, e0) ==
    Validated(f, PostStepOf(f, ChainStep(f, extra,
                                PreStep(e0, PreValidate([f EXCEPT !.errors = e0])))))

\* Field.validate(form, extra_validators)
FieldValidate(f, extra) == ValidateFrom(f, extra, SeedErrors(f))

----------------------------------------------------------------------------
(* FieldList.  A bound FieldList is a record:                              *)
(*   short_name, prefix   its name is prefix + short_name                  *)
(*   unbound_field        the template: the captured constructor arguments *)
(*                        of the entry field                               *)
(*   min_entries, max_entries, validators, default                         *)
(*   entries              a sequence of [index, f]: the bound entry field  *)
(*                        f and the index its name was formatted from      *)
(*   has_entries          whether the attribute entries exists: __init__   *)
(*                        does not set it, process does; until then every  *)
(*                        read of self.entries raises AttributeError       *)
(*   last_index, object_data, errors                                       *)
(* In errors an entry's error list is <<"errors", list>> and a message of  *)
(* the list's own validators is <<"msg", text>>.                           *)

\* max_entries = None, the default; a cap that is set is VInt(n).  The code
\* tests max_entries by truth value only ("if self.max_entries", "not
\* self.max_entries or ..."), so a cap declared as 0 is enforced no more
\* than None is
NoCap == None

UnboundField(kind, validators, filters, default) ==
    [kind |-> kind, validators |-> validators, filters |-> filters, default |-> default,
     coerce |-> "text", choices |-> <<>>]

\* the state of a FieldList right after construction: __init__ sets no
\* entries attribute
NewFieldList(short_name, prefix, unbound_field, min_entries, max_entries, validators) ==
    [short_name |-> short_name, prefix |-> prefix, unbound_field |-> unbound_field,
     min_entries |-> min_entries, max_entries |-> max_entries,
     validators |-> validators, default |-> VList(<<>>),
     has_entries |-> FALSE, entries |-> <<>>,
     last_index |-> -1, object_data |-> Unset, errors |-> <<>>]

\* self.field_attrs.name
ListName(l) == l.prefix \o l.short_name

\* the data property: [f.data for f in self.entries], or the AttributeError
\* the read of self.entries raises
ListData(l) ==
    IF ~l.has_entries THEN AttributeError
    ELSE VList([i \in 1..Len(l.entries) |-> l.entries[i].f.data])

\* the index a key yields in _extract_indices, as a sequence of 0 or 1 ints
KeyIndex(prefix, k) ==
    LET seg == SplitFirst(SliceFrom(k, Len(prefix) + 1))
    IN IF StartsWith(k, prefix) /\ IsDigitStr(seg) THEN <<DigitsToNat(seg, 0)>> ELSE <<>>

\* FieldList._extract_indices(prefix, formdata): the indices yielded, in order
RECURSIVE ExtractIndices(_, _)
ExtractIndices(prefix, keys) ==
    IF keys = <<>> THEN <<>>
    ELSE KeyIndex(prefix, Head(keys)) \o ExtractIndices(prefix, Tail(keys))

SeqToSet(xs) == {xs[i] : i \in 1..Len(xs)}
SetMin(S) == CHOOSE x \in S : \A y \in S : x <= y

\* sorted(S) for a set of ints
RECURSIVE Sorted(_)
Sorted(S) == IF S = {} THEN <<>> ELSE <<SetMin(S)>> \o Sorted(S \ {SetMin(S)})

\* indices[:max_entries] when max_entries is truthy
Truncate(indices, max_entries) ==
    IF Truthy(max_entries) /\ Len(indices) > max_entries[2]
    THEN SubSeq(indices, 1, max_entries[2]) ELSE indices

\* '%s-%d' % (self.short_name, index), under the list's prefix
EntryName(l, index) == l.prefix \o l.short_name \o <<"-">> \o IntToStr(index)

\* the assertion of _add_entry: not self.max_entries or
\* len(self.entries) < self.max_entries
CapAllows(l) == ~Truthy(l.max_entries) \/ Len(l.entries) < l.max_entries[2]

\* unbound_field.bind(form=None, name=name, prefix=self._prefix, ...)
Bind(u, name) ==
    NewField(u.kind, name, u.validators, u.filters, u.default, u.coerce, u.choices)

Ok(l) == [l |-> l, exc |-> NoExc]

\* self.last_index = index; ...; field.process(formdata, data);
\* self.entries.append(field): without the attribute entries the append
\* raises AttributeError after last_index was assigned, and the field
\* just bound is dropped
AddAt(l, fd, data, i) ==
    IF ~l.has_entries THEN [l |-> [l EXCEPT !.last_index = i], exc |-> AttributeError]
    ELSE Ok([l EXCEPT !.last_index = i,
                      !.entries = Append(@, [index |-> i,
                                             f |-> FieldProcess(Bind(l.unbound_field,
                                                                     EntryName(l, i)),
                                                                fd, data)])])

\* an entry added without an index takes last_index itself
AddEntryReusesIndex(l, fd, data, index) ==
    IF Truthy(l.max_entries) /\ ~l.has_entries THEN [l |-> l, exc |-> AttributeError]
    ELSE IF ~CapAllows(l) THEN [l |-> l, exc |-> AssertionError]
    ELSE AddAt(l, fd, data, IF index = None THEN l.last_index ELSE index[2])

\* last_index is advanced before the cap is tested
AddEntryAdvancesFirst(l, fd, data, index) ==
    IF Truthy(l.max_entries) /\ ~l.has_entries THEN [l |-> l, exc |-> AttributeError]
    ELSE IF ~CapAllows(l)
    THEN [l |-> [l EXCEPT !.last_index = IF index = None THEN @ + 1 ELSE index[2]],
          exc |-> AssertionError]
    ELSE AddAt(l, fd, data, IF index = None THEN l.last_index + 1 ELSE index[2])

\* FieldList._add_entry(formdata, data, index): index is None or VInt(i).
\* The list afterwards and the exception raised.  The assertion reads
\* len(self.entries) only when max_entries is truthy, and without the
\* attribute entries that read raises AttributeError
AddEntry(l, fd, data, index) ==
    IF Truthy(l.max_entries) /\ ~l.has_entries THEN [l |-> l, exc |-> AttributeError]
    ELSE IF ~CapAllows(l) THEN [l |-> l, exc |-> AssertionError]
    ELSE AddAt(l, fd, data, IF index = None THEN l.last_index + 1 ELSE index[2])

RECURSIVE AddIndexed(_, _, _, _)
AddIndexedNext(r, fd, indices, idata) ==
    IF r.exc # NoExc THEN r ELSE AddIndexed(r.l, fd, indices, idata)

\* every index is handed the first item of data
AddIndexedSameItem(l, fd, indices, idata) ==
    IF indices = <<>> THEN Ok(l)
    ELSE AddIndexedNext(AddEntry(l, fd, IF idata # <<>> THEN Head(idata) ELSE Unset,
                                 VInt(Head(indices))),
                        fd, Tail(indices), idata)

\* for index in indices: obj_data = next(idata) or unset_value; _add_entry
AddIndexed(l, fd, indices, idata) ==
    IF indices = <<>> THEN Ok(l)
    ELSE AddIndexedNext(AddEntry(l, fd, IF idata # <<>> THEN Head(idata) ELSE Unset,
                                 VInt(Head(indices))),
                        fd, Tail(indices), IF idata # <<>> THEN Tail(idata) ELSE idata)

RECURSIVE AddEach(_, _, _)
AddEachNext(r, fd, data) == IF r.exc # NoExc THEN r ELSE AddEach(r.l, fd, data)

\* for obj_data in data: self._add_entry(formdata, obj_data)
AddEach(l, fd, data) ==
    IF data = <<>> THEN Ok(l)
    ELSE AddEachNext(AddEntry(l, fd, Head(data), None), fd, Tail(data))

RECURSIVE Pad(_, _)
PadNext(r, fd) == IF r.exc # NoExc THEN r ELSE Pad(r.l, fd)

\* the padding stops one entry short of min_entries
PadStopsShort(l, fd) ==
    IF Len(l.entries) + 1 >= l.min_entries THEN Ok(l)
    ELSE PadNext(AddEntry(l, fd, Unset, None), fd)

\* while len(self.entries) < self.min_entries: self._add_entry(formdata)
Pad(l, fd) ==
    IF Len(l.entries) >= l.min_entries THEN Ok(l)
    ELSE PadNext(AddEntry(l, fd, Unset, None), fd)

\* the indices process materializes from a truthy formdata
FormIndices(l, fd) ==
    Truncate(Sorted(SeqToSet(ExtractIndices(ListName(l), KeysOf(fd)))), l.max_entries)

\* if data is unset_value or not data: data = self.default
ResolveListData(l, data) == IF data = Unset \/ ~Truthy(data) THEN l.default ELSE data

\* self.entries = []; ...; self.object_data = data
BeginListProcess(l, d) ==
    [l EXCEPT !.has_entries = TRUE, !.entries = <<>>, !.object_data = d]

\* if formdata: ... else: ...
Materialize(l, fd) ==
    IF FormdataTruthy(fd) THEN AddIndexed(l, fd, FormIndices(l, fd), l.object_data[2])
    ELSE AddEach(l, fd, l.object_data[2])

\* FieldList.process(formdata, data): the list afterwards and the exception
\* raised
ListProcess(l, fd, data) ==
    PadNext(Materialize(BeginListProcess(l, ResolveListData(l, data)), fd), fd)

\* the new entry is numbered by its position in entries
AppendEntryAtPosition(l, data) == AddEntry(l, NoFormdata, data, VInt(Len(l.entries)))

\* FieldList.append_entry(data)
AppendEntry(l, data) == AddEntry(l, NoFormdata, data, None)

\* last_index is left as it was
PopEntryKeepsIndex(l) ==
    IF ~l.has_entries THEN [l |-> l, exc |-> AttributeError, ret |-> None]
    ELSE IF l.entries = <<>> THEN [l |-> l, exc |-> IndexError, ret |-> None]
    ELSE [l |-> [l EXCEPT !.entries = SubSeq(@, 1, Len(@) - 1)],
          exc |-> NoExc, ret |-> l.entries[Len(l.entries)]]

\* FieldList.pop_entry(): the read of self.entries raises AttributeError
\* without the attribute, and list.pop() of an empty list raises IndexError,
\* both before last_index is touched; ret is the entry returned
PopEntry(l) ==
    IF ~l.has_entries THEN [l |-> l, exc |-> AttributeError, ret |-> None]
    ELSE IF l.entries = <<>> THEN [l |-> l, exc |-> IndexError, ret |-> None]
    ELSE [l |-> [l EXCEPT !.entries = SubSeq(@, 1, Len(@) - 1),
                          !.last_index = @ - 1],
          exc |-> NoExc, ret |-> l.entries[Len(l.entries)]]

\* the entries after subfield.validate(form) was called on each, in order
ValidatedEntries(l) ==
    [i \in 1..Len(l.entries) |->
        [l.entries[i] EXCEPT !.f = FieldValidate(l.entries[i].f, <<>>).f]]

\* if not subfield.validate(form): self.errors.append(subfield.errors),
\* over entries already validated
RECURSIVE EntryErrors(_)
EntryErrors(entries) ==
    IF entries = <<>> THEN <<>>
    ELSE (IF Verdict(Head(entries).f.errors) THEN <<>>
          ELSE << <<"errors", Head(entries).f.errors>> >>)
         \o EntryErrors(Tail(entries))

Msgs(errs) == [i \in 1..Len(errs) |-> <<"msg", errs[i]>>]

\* self.errors = []
ListSeed(l) == <<>>

\* for subfield in self.entries: ...
EntriesStep(l) ==
    [l EXCEPT !.entries = ValidatedEntries(l),
              !.errors = ListSeed(l) \o EntryErrors(ValidatedEntries(l))]

\* the list's validators run only when every entry passed
ListChainUnlessFailed(l, extra) ==
    IF l.errors # <<>> THEN [errors |-> <<>>, stopped |-> FALSE, calls |-> <<>>]
    ELSE RunValidationChain([data |-> ListData(l), errors |-> l.errors],
                            l.validators \o extra, <<>>, <<>>)

\* chain = itertools.chain(self.validators, extra_validators);
\* self._run_validation_chain(form, chain)
ListChain(l, extra) ==
    RunValidationChain([data |-> ListData(l), errors |-> l.errors],
                       l.validators \o extra, <<>>, <<>>)

\* the list with its errors, the value returned, and the history of the
\* call: the entries validated and the validators invoked, in order
ListValidated(l, ch) ==
    [l |-> [l EXCEPT !.errors = @ \o Msgs(ch.errors)],
     ok |-> Verdict(l.errors \o Msgs(ch.errors)),
     calls |-> [i \in 1..Len(l.entries) |-> <<"entry", i>>]
               \o [i \in 1..Len(ch.calls) |-> <<"validator", ch.calls[i]>>],
     exc |-> NoExc]

ChainStepOf(l, extra) == ListValidated(l, ListChain(l, extra))

\* FieldList.validate(form, extra_validators): self.errors = [] comes
\* first; without the attribute entries the loop over self.entries then
\* raises AttributeError, before any validator is invoked
ListValidate(l, extra) ==
    IF ~l.has_entries
    THEN [l |-> [l EXCEPT !.errors = ListSeed(l)], ok |-> FALSE, calls |-> <<>>,
          exc |-> AttributeError]
    ELSE ChainStepOf(EntriesStep(l), extra)

----------------------------------------------------------------------------
(* FormField.  A form class is a sequence of [short_name, unbound_field];  *)
(* a nested form is the sequence of its bound fields, in declaration       *)
(* order.  A bound FormField is a record:                                  *)
(*   name, separator, form_class, default                                  *)
(*   object_data, obj   obj is the attribute _obj                          *)
(*   form               the nested form, NoForm before the first process   *)
(* An object is <<"obj", attrs>> and a dict <<"dict", attrs>>, attrs a     *)
(* sequence of <<name, value>>.                                            *)

\* the attribute form is not set; every form class declares a field
NoForm == <<>>
Obj(attrs) == <<"obj", attrs>>
Dict(attrs) == <<"dict", attrs>>
IsDict(v) == v[1] = "dict"

\* hasattr(obj, name), name in kwargs
HasAttr(o, name) == \E i \in 1..Len(o[2]) : o[2][i][1] = name
\* getattr(obj, name), kwargs[name]
GetAttr(o, name) == o[2][CHOOSE i \in 1..Len(o[2]) : o[2][i][1] = name][2]

\* FormField(form_class): _obj = None, separator '-', no validators, no filters
NewFormField(name, form_class) ==
    [name |-> name, separator |-> <<"-">>, form_class |-> form_class, default |-> None,
     object_data |-> None, obj |-> None, form |-> NoForm]

\* the data the form hands the field called name: the attribute of obj,
\* else the keyword argument, else nothing
FormFieldData(obj, kwargs, name) ==
    IF obj # None /\ HasAttr(obj, name) THEN GetAttr(obj, name)
    ELSE IF HasAttr(kwargs, name) THEN GetAttr(kwargs, name)
    ELSE Unset

\* form_class(formdata=formdata, obj=obj, prefix=prefix, **kwargs): every
\* declared field is bound under the prefix and processed
FormConstruct(form_class, fd, obj, kwargs, prefix) ==
    [i \in 1..Len(form_class) |->
        FieldProcess(Bind(form_class[i].unbound_field, prefix \o form_class[i].short_name),
                     fd, FormFieldData(obj, kwargs, form_class[i].short_name))]

\* if data is unset_value: data = self.default ...; self._obj = data
FormFieldBegin(ff, data) ==
    IF data = Unset THEN [ff EXCEPT !.object_data = ff.default, !.obj = ff.default]
    ELSE [ff EXCEPT !.object_data = data]

\* self.form = self.form_class(...), from self.object_data
FormFieldBuild(ff, fd) ==
    [ff EXCEPT !.form =
        IF IsDict(ff.object_data)
        THEN FormConstruct(ff.form_class, fd, None, ff.object_data, ff.name \o ff.separator)
        ELSE FormConstruct(ff.form_class, fd, ff.object_data, Dict(<<>>),
                           ff.name \o ff.separator)]

\* FormField.process(formdata, data)
FormFieldProcess(ff, fd, data) == FormFieldBuild(FormFieldBegin(ff, data), fd)

\* form.validate(): every field is validated; true when all returned true
FormValidate(form) ==
    [form |-> [i \in 1..Len(form) |-> FieldValidate(form[i], <<>>).f],
     ok |-> \A i \in 1..Len(form) : FieldValidate(form[i], <<>>).ok]

HasErrors(f) == f.errors # <<>>

\* form.errors: the name and the errors of every field that has errors
FormErrors(form) ==
    [i \in 1..Len(SelectSeq(form, HasErrors)) |->
        <<SelectSeq(form, HasErrors)[i].name, SelectSeq(form, HasErrors)[i].errors>>]

\* FormField.validate(form, extra_validators)
FormFieldValidate(ff, extra) ==
    IF extra # <<>> THEN [ff |-> ff, ok |-> FALSE, exc |-> TypeError]
    ELSE [ff |-> [ff EXCEPT !.form = FormValidate(ff.form).form],
          ok |-> FormValidate(ff.form).ok, exc |-> NoExc]

----------------------------------------------------------------------------
\* UnboundField.__init__(field_class, **kwargs): the class attribute
\* creation_counter is advanced and the descriptor keeps its value; u holds
\* the field class and the keyword arguments.  The state is the class
\* attribute and the descriptors created, in creation order
UnboundInit(state, u) ==
    [creation_counter |-> state.creation_counter + 1,
     descriptors |-> Append(state.descriptors,
                            [u |-> u, creation_counter |-> state.creation_counter + 1])]

\* the keyword arguments captured for a FormField and for a FieldList
UnboundFormField(form_class, validators, filters) ==
    [kind |-> "FormField", validators |-> validators, filters |-> filters,
     default |-> None, coerce |-> "text", choices |-> <<>>, form_class |-> form_class]
UnboundFieldList(unbound_field, min_entries, max_entries, validators, filters) ==
    [kind |-> "FieldList", validators |-> validators, filters |-> filters,
     default |-> VList(<<>>), coerce |-> "text", choices |-> <<>>,
     unbound_field |-> unbound_field, min_entries |-> min_entries,
     max_entries |-> max_entries]

\* what a constructor leaves: the field, or the exception it raised
Constructed(f) == [ret |-> f, exc |-> NoExc]
Refused(exc) == [ret |-> None, exc |-> exc]

\* only the filters make the constructor raise
FormFieldInitAllowsValidators(u, name, prefix) ==
    IF u.filters # <<>> THEN Refused(TypeError)
    ELSE Constructed(NewFormField(prefix \o name, u.form_class))

\* FormField.__init__(form_class, **kwargs)
FormFieldInit(u, name, prefix) ==
    IF u.filters # <<>> THEN Refused(TypeError)
    ELSE IF u.validators # <<>> THEN Refused(TypeError)
    ELSE Constructed(NewFormField(prefix \o name, u.form_class))

\* FieldList.__init__(unbound_field, min_entries, max_entries, **kwargs)
FieldListInit(u, name, prefix) ==
    IF u.filters # <<>> THEN Refused(TypeError)
    ELSE Constructed(NewFieldList(name, prefix, u.unbound_field, u.min_entries,
                                  u.max_entries, u.validators))

\* field_class.__init__(**kwargs), with _name and _prefix among them
FieldInit(u, name, prefix) ==
    CASE u.kind = "FormField" -> FormFieldInit(u, name, prefix)
      [] u.kind = "FieldList" -> FieldListInit(u, name, prefix)
      [] OTHER -> Constructed(Bind(u, prefix \o name))

\* Field.__new__(cls, **kwargs), and the __init__ that follows it: a field
\* when the keyword arguments hold _form and _name (named), else a
\* descriptor, which no constructor of the field class runs for; the
\* field's name is _prefix + _name
FieldNew(state, u, named, name, prefix) ==
    IF named
    THEN [state |-> state, ret |-> FieldInit(u, name, prefix).ret,
          exc |-> FieldInit(u, name, prefix).exc]
    ELSE [state |-> UnboundInit(state, u),
          ret |-> [u |-> u, creation_counter |-> state.creation_counter + 1],
          exc |-> NoExc]

\* the field class is called with the captured arguments alone
UnboundBindUnnamed(state, i, name, prefix) ==
    FieldNew(state, state.descriptors[i].u, FALSE, <<>>, <<>>)

\* UnboundField.bind(form, name, prefix): the field class is called with a
\* copy of the captured arguments, to which _form, _name and _prefix are added
UnboundBind(state, i, name, prefix) ==
    FieldNew(state, state.descriptors[i].u, TRUE, name, prefix)


(* populate_obj: field data written onto the attributes of an object *)

\* setattr(obj, name, value)
SetAttr(o, name, value) ==
    IF HasAttr(o, name)
    THEN <<o[1], [i \in 1..Len(o[2]) |->
                    IF o[2][i][1] = name THEN <<name, value>> ELSE o[2][i]]>>
    ELSE <<o[1], Append(o[2], <<name, value>>)>>

\* getattr(obj, name, None)
GetAttrOrNone(o, name) == IF HasAttr(o, name) THEN GetAttr(o, name) ELSE None

\* Field.populate_obj(obj, name)
FieldPopulateObj(f, o, name) == SetAttr(o, name, f.data)

\* what iter(values) yields: the items of a list, the characters of a str;
\* iter([]) when values is not iterable
IterOrEmpty(values) ==
    CASE values[1] = "list" -> values[2]
      [] values[1] = "str" -> [i \in 1..Len(values[2]) |-> VStr(<<values[2][i]>>)]
      [] OTHER -> <<>>

\* the existing values are not padded: the loop stops at the shorter of
\* entries and values
CandidatesUnpadded(values, n) ==
    [i \in 1..(IF Len(IterOrEmpty(values)) < n THEN Len(IterOrEmpty(values)) ELSE n) |->
        IterOrEmpty(values)[i]]

\* izip(self.entries, chain(ivalues, repeat(None))): the datum paired with
\* each of the n entries
Candidates(values, n) ==
    [i \in 1..n |-> IF i <= Len(IterOrEmpty(values)) THEN IterOrEmpty(values)[i] ELSE None]

\* fake_obj.data = data; field.populate_obj(fake_obj, 'data'); fake_obj.data
PopulatedDatum(f, data) ==
    GetAttr(FieldPopulateObj(f, Obj(<< <<<<"d", "a", "t", "a">>, data>> >>),
                             <<"d", "a", "t", "a">>),
            <<"d", "a", "t", "a">>)

\* the output list, from the data paired with the entries
ListOutput(l, candidates) ==
    VList([i \in 1..Len(candidates) |-> PopulatedDatum(l.entries[i].f, candidates[i])])

\* FieldList.populate_obj(obj, name): the object afterwards and, as
\* history, the datum each entry's carrier was initialized with; without
\* the attribute entries izip(self.entries, ...) raises AttributeError
\* before setattr, and obj is left as it was
ListPopulateObj(l, o, name) ==
    IF ~l.has_entries THEN [obj |-> o, carriers |-> <<>>, exc |-> AttributeError]
    ELSE [obj |-> SetAttr(o, name,
                          ListOutput(l, Candidates(GetAttrOrNone(o, name),
                                                   Len(l.entries)))),
          carriers |-> Candidates(GetAttrOrNone(o, name), Len(l.entries)),
          exc |-> NoExc]

\* form.populate_obj(obj): the first n fields of the form, in declaration
\* order, each write their data onto the attribute they were declared as
RECURSIVE FormPopulateObj(_, _, _, _)
FormPopulateObj(form, form_class, o, n) ==
    IF n = 0 THEN o
    ELSE FieldPopulateObj(form[n], FormPopulateObj(form, form_class, o, n - 1),
                          form_class[n].short_name)

\* candidate = getattr(obj, name, None); if candidate is None: candidate = self._obj
Candidate(ff, o, name) ==
    IF GetAttrOrNone(o, name) = None THEN ff.obj ELSE GetAttrOrNone(o, name)

\* the candidate once self.form.populate_obj(candidate) has written to it
Populated(ff, candidate) == FormPopulateObj(ff.form, ff.form_class, candidate, Len(ff.form))

\* a reference v after the object old was changed in place to new: the
\* objects of the model differ in an attribute no field writes, so that two
\* references are equal exactly when they are one object
Alias(v, old, new) == IF v = old THEN new ELSE v

\* FormField.populate_obj(obj, name), of a processed field: the field and the
\* object afterwards
FormFieldPopulateObj(ff, o, name) ==
    IF Candidate(ff, o, name) = None THEN [ff |-> ff, obj |-> o, exc |-> TypeError]
    ELSE [ff |-> [ff EXCEPT
                    !.obj = Alias(@, Candidate(ff, o, name),
                                  Populated(ff, Candidate(ff, o, name))),
                    !.default = Alias(@, Candidate(ff, o, name),
                                      Populated(ff, Candidate(ff, o, name))),
                    !.object_data = Alias(@, Candidate(ff, o, name),
                                          Populated(ff, Candidate(ff, o, name)))],
          obj |-> SetAttr(o, name, Populated(ff, Candidate(ff, o, name))),
          exc |-> NoExc]

----------------------------------------------------------------------------
(* wrap_formdata.  An object handed in as formdata is None or              *)
(* <<"object", methods, items>>: the methods it exposes among getlist,     *)
(* getall and get, and its items: the ordered (key, value) pairs of a      *)
(* multidict, the (key, value) items of a dict.  A DictWrapper is          *)
(* <<"dictwrapper", items>>; a WebobInputWrapper is Formdata(pairs).       *)

Object(methods, items) == <<"object", methods, items>>
\* hasattr(formdata, method)
Exposes(x, method) == method \in x[2]

\* WebobInputWrapper(multidict)
WebobInputWrapper(multidict) == Formdata(multidict[3])
\* DictWrapper(dict), of the module utils
DictWrapper(dict) == <<"dictwrapper", dict[3]>>

\* DefaultMeta.wrap_formdata(form, formdata).  The module meta imports
\* WebobInputWrapper only: in the branch of an object that has get alone,
\* the name DictWrapper is not defined and its evaluation raises NameError
WrapFormdata(x) ==
    IF x # None /\ ~Exposes(x, "getlist")
    THEN IF Exposes(x, "getall") THEN [ret |-> WebobInputWrapper(x), exc |-> NoExc]
         ELSE IF Exposes(x, "get") THEN [ret |-> None, exc |-> NameError]
         ELSE [ret |-> None, exc |-> TypeError]
    ELSE [ret |-> x, exc |-> NoExc]

\* dict.get(name): the value stored, else None
DictGet(items, name) ==
    IF \E i \in 1..Len(items) : items[i][1] = name
    THEN items[CHOOSE i \in 1..Len(items) : items[i][1] = name][2]
    ELSE None

\* DictWrapper.getlist(name): the value stored, which has to be a list
DictGetlist(w, name) ==
    IF DictGet(Pairs(w), name)[1] = "list"
    THEN [ret |-> DictGet(Pairs(w), name)[2], exc |-> NoExc]
    ELSE [ret |-> None, exc |-> AssertionError]

\* wrapper.getlist(name), of either wrapper
WrapperGetlist(w, name) ==
    IF w[1] = "dictwrapper" THEN DictGetlist(w, name)
    ELSE [ret |-> GetList(w, name), exc |-> NoExc]

----------------------------------------------------------------------------
(* get_translations.  The attribute locales of a meta is False or a        *)
(* sequence of locale names; a translations object is                      *)
(* <<"translations", languages, maker>>: the languages it was computed for *)
(* and the thread that computed it, which tells apart the objects of two   *)
(* computations for the same languages.  The cache is a function from the  *)
(* keys to a translations object, or None for a key it does not hold.      *)

LocalesFalse == <<"False">>

\* i18n.get_translations(languages), called by thread t
I18nGetTranslations(languages, t) == <<"translations", languages, t>>

\* the key is the first locale alone
CacheKeyFirstOnly(locales) == IF locales # <<>> THEN <<Head(locales)>> ELSE None

\* tuple(locales) if locales else None
CacheKey(locales) == IF locales # <<>> THEN locales ELSE None

\* self.translations_cache.get(locales)
CacheGet(c, key) == c[key]

\* self.translations_cache[locales] = translations
CacheSet(c, key, translations) == [c EXCEPT ![key] = translations]

\* a thread between two calls, and a thread in a call: pc is "idle",
\* "missed" (the lookup found nothing, the translations are not stored yet)
\* or "done"; replaced is history: what the cache held under the key when
\* the thread stored its translations
Idle ==
    [pc |-> "idle", locales |-> LocalesFalse, cached |-> FALSE, ret |-> None,
     replaced |-> None]
InCall(pc, locales, cached, ret, replaced) ==
    [pc |-> pc, locales |-> locales, cached |-> cached, ret |-> ret, replaced |-> replaced]

\* get_translations up to and including the lookup in the cache, by thread
\* t on a meta with the attributes locales and cache_translations (cached)
GetTranslationsBegin(c, t, locales, cached) ==
    IF locales = LocalesFalse THEN InCall("done", locales, cached, None, None)
    ELSE IF ~cached
    THEN InCall("done", locales, cached, I18nGetTranslations(locales, t), None)
    ELSE IF CacheGet(c, CacheKey(locales)) # None
    THEN InCall("done", locales, cached, CacheGet(c, CacheKey(locales)), None)
    ELSE InCall("missed", locales, cached, None, None)

\* translations = self.translations_cache[locales] = i18n.get_translations(
\* locales); return translations: the thread and the cache afterwards
GetTranslationsStore(c, t, th) ==
    [thread |-> InCall("done", th.locales, th.cached,
                       I18nGetTranslations(CacheKey(th.locales), t),
                       CacheGet(c, CacheKey(th.locales))),
     cache |-> CacheSet(c, CacheKey(th.locales),
                        I18nGetTranslations(CacheKey(th.locales), t))]

(* The declarations and inputs the model explores *)

\* all sequences over S of length at most n
RECURSIVE SeqsUpTo(_, _)
SeqsUpTo(S, n) ==
    IF n = 0 THEN {<<>>}
    ELSE LET shorter == SeqsUpTo(S, n - 1)
         IN shorter \cup {Append(q, x) : q \in shorter, x \in S}

sA == <<"a">>
sB == <<"b">>
sP == <<"p">>
s1 == <<"1">>
s2 == <<"2">>
s9 == <<"9">>
s42 == <<"4", "2">>
sAbc == <<"a", "b", "c">>
sY == <<"y">>
sZz == <<"z", "z">>

FilterLists ==
    {<<>>, <<fReject>>, <<fFirst, fAddX>>, <<fAddX, fFirst>>, <<fAddX, fReject, fFirst>>}

StrChoices == << <<VStr(s1), "One">>, <<VStr(s2), "Two">> >>
IntChoices == << <<VInt(1), "One">>, <<VInt(2), "Two">> >>

\* the scalar fields declared: an integer field with every validator
\* list; every field class with and without filters and a default; select
\* fields
FieldDecls ==
    {NewField("Integer", sA, vs, <<>>, None, "text", <<>>) :
        vs \in SeqsUpTo(Validators, MaxChain)}
    \cup {NewField(k, sA, <<>>, fs, d, "text", <<>>) :
            k \in {"Field", "String", "Integer", "Boolean"},
            fs \in FilterLists, d \in {None, VStr(sY)}}
    \cup {NewField("Select", sA, vs, <<>>, None, c, ch) :
            vs \in {<<>>, <<vErr>>}, c \in {"int", "text"}, ch \in {StrChoices, IntChoices}}

\* the formdata handed to a scalar field named "a"
FieldFormdatas ==
    {NoFormdata, Formdata(<<>>), Formdata(<< <<sB, sAbc>>, <<sA, s2>>, <<sA, sAbc>> >>)}
    \cup {Formdata(<< <<sA, v>> >>) : v \in {s42, sAbc, <<>>, sFalse, s9, <<"-", "7">>}}

\* the object data handed to a scalar field
FieldData == {Unset, VStr(s2), VInt(0)}

\* the extra_validators handed to validate
Extras == SeqsUpTo({vErr, vStop}, MaxExtra)

\* the value submitted for the entry of index i
Names == << <<"A", "l">>, <<"B", "o">>, <<"C", "y">>, <<"D", "i">>, <<"E", "d">> >>
NameFor(i) == Names[(i % 5) + 1]

\* the key of the entry of index i of the list "p"
IndexKey(i) == sP \o <<"-">> \o IntToStr(i)

\* the pairs <<p-i, NameFor(i)>> for i in K, highest index first
RECURSIVE IndexPairs(_)
IndexPairs(K) ==
    IF K = {} THEN <<>>
    ELSE LET m == CHOOSE x \in K : \A y \in K : y <= x
         IN << <<IndexKey(m), NameFor(m)>> >> \o IndexPairs(K \ {m})

\* formdata whose keys beginning with "p" are not all keys of the list "p":
\* a key with another character in place of the separator, a key of a
\* field whose name goes on after "p", a key below an entry, a key given
\* twice, a key of another field, an index written with a leading zero
OddFormdatas ==
    {Formdata(<< <<sP \o <<"-", "0">>, NameFor(0)>>, <<sP \o <<"-", "2">>, NameFor(2)>>,
                 <<sP \o <<"X", "1">>, sZz>> >>),
     Formdata(<< <<sP \o <<"-", "1">>, NameFor(1)>>, <<sP \o <<"-", "2">>, NameFor(2)>>,
                 <<sP \o <<"1", "0", "-", "3">>, sZz>> >>),
     Formdata(<< <<sP \o <<"-", "2", "-", "x">>, sZz>>, <<sP \o <<"-", "0">>, NameFor(0)>> >>),
     Formdata(<< <<sP \o <<"-", "1">>, NameFor(1)>>, <<sP \o <<"-", "1">>, NameFor(0)>> >>),
     Formdata(<< <<<<"q", "-", "0">>, sZz>>, <<sP \o <<"-", "1">>, NameFor(1)>> >>),
     Formdata(<< <<<<"q", "-", "0">>, sZz>> >>),
     Formdata(<< <<sP \o <<"-", "0", "1">>, sZz>>, <<sP \o <<"-", "0">>, NameFor(0)>> >>)}

\* the formdata handed to the FieldList named "p"
ListFormdatas ==
    {NoFormdata} \cup {Formdata(IndexPairs(K)) : K \in SUBSET (0..MaxIndex)}
    \cup OddFormdatas

\* the object data handed to the FieldList: unset, or a list of n strings,
\* the empty list included
ObjFor(i) == VStr(<<"o">> \o IntToStr(i))
ListData_ == {Unset} \cup {VList([i \in 1..n |-> ObjFor(i)]) : n \in 0..MaxData}

\* the FieldLists of StringField entries declared for process,
\* append_entry and pop_entry: every min_entries and max_entries, with a
\* template with and without a default
ListDecls ==
    {NewFieldList(sP, <<>>, UnboundField("String", <<>>, <<>>, None), mn, mx, <<>>) :
        mn \in {0, 1, MaxMin}, mx \in {NoCap} \cup {VInt(n) : n \in 1..MaxCap}}
    \cup {NewFieldList(sP, <<>>, UnboundField("String", <<>>, <<>>, VStr(<<"d">>)),
                       mn, NoCap, <<>>) : mn \in {0, 1, MaxMin}}

\* the FieldLists declared for validation: the template or the list itself
\* carries validators, the template may carry a filter
ValidatedListDecls ==
    {NewFieldList(sP, <<>>, UnboundField("String", tv, tf, None), 1, NoCap, vs) :
        tv \in {<<>>, <<vNonEmpty>>}, tf \in {<<>>, <<fReject>>},
        vs \in {<<>>, <<vErr>>, <<vNonEmpty, vStop>>, <<vStopQ, vErr>>}}

\* the formdata and object data handed to the lists declared for validation
ValidatedFormdatas ==
    {NoFormdata, Formdata(IndexPairs({0, 2})),
     Formdata(<< <<IndexKey(0), <<>> >>, <<IndexKey(1), NameFor(1)>> >>),
     Formdata(<< <<IndexKey(1), <<>> >>, <<IndexKey(2), <<>> >> >>)}
ValidatedData == {Unset, VList(<<ObjFor(1), VStr(<<>>)>>)}

\* the form classes enclosed: a text field that must not be empty beside
\* an integer field, and a single text field that never validates
FormClasses ==
    {<< [short_name |-> <<"x">>,
         unbound_field |-> UnboundField("String", <<vNonEmpty>>, <<>>, None)],
        [short_name |-> <<"n">>,
         unbound_field |-> UnboundField("Integer", <<>>, <<>>, None)] >>,
     << [short_name |-> <<"x">>,
         unbound_field |-> UnboundField("String", <<vErr, vStop>>, <<fReject>>, None)] >>}

\* the FormFields declared, named "f"
FormFieldDecls == {NewFormField(<<"f">>, fc) : fc \in FormClasses}

\* the formdata handed to the FormField named "f"
FormFieldFormdatas ==
    {NoFormdata,
     Formdata(<< <<<<"f", "-", "x">>, sAbc>>, <<<<"f", "-", "n">>, s42>> >>),
     Formdata(<< <<<<"f", "-", "x">>, <<>> >>, <<<<"f", "-", "n">>, sAbc>> >>),
     Formdata(<< <<<<"f", "-", "n">>, s9>> >>)}

\* the object data handed to the FormField: unset, an object, a dict
FormFieldData_ ==
    {Unset, Obj(<< <<<<"x">>, VStr(sY)>>, <<<<"n">>, VInt(2)>> >>),
     Obj(<< <<<<"n">>, VInt(0)>> >>), Dict(<< <<<<"x">>, VStr(<<>>)>> >>)}

\* the attribute that tells the objects apart
sId == <<"i", "d">>

\* the FormFields declared for populate_obj: without a default, with an
\* object as default
PopulatedFormFieldDecls ==
    {[NewFormField(<<"f">>, fc) EXCEPT !.default = d] :
        fc \in FormClasses, d \in {None, Obj(<< <<sId, VStr(<<"d">>)>> >>)}}

\* the objects handed to FormField.populate_obj(obj, 'f'): without the
\* attribute, with None, with an object
FormFieldObjs ==
    {Obj(<< <<sId, VStr(<<"t">>)>> >>),
     Obj(<< <<sId, VStr(<<"u">>)>>, <<<<"f">>, None>> >>),
     Obj(<< <<<<"f">>, Obj(<< <<sId, VStr(<<"e">>)>>, <<<<"x">>, VStr(<<"o">>)>> >>)>> >>)}

\* the fields declared through descriptors
ScalarDecls ==
    {UnboundField("String", <<vNonEmpty>>, <<>>, None),
     UnboundField("Integer", <<>>, <<fFirst>>, VInt(1))}

\* the form class enclosed by the FormFields declared
EnclosedFormClass ==
    << [short_name |-> <<"x">>,
        unbound_field |-> UnboundField("String", <<vNonEmpty>>, <<>>, None)] >>

\* FormFields declared with nothing, with a validator and with a filter of
\* their own; FieldLists declared with a validator and with a filter
CompositeDecls ==
    {UnboundFormField(EnclosedFormClass, <<>>, <<>>),
     UnboundFormField(EnclosedFormClass, <<vErr>>, <<>>),
     UnboundFormField(EnclosedFormClass, <<>>, <<fFirst>>),
     UnboundFieldList(UnboundField("String", <<>>, <<>>, None), 0, NoCap, <<vNonEmpty>>, <<>>),
     UnboundFieldList(UnboundField("String", <<>>, <<>>, None), 0, NoCap, <<>>, <<fFirst>>)}

UnboundDecls == ScalarDecls \cup CompositeDecls

\* the names and prefixes fields are bound under: by a form, by a FieldList
\* for an entry, by a nested form
BindNames == {<<"a">>, <<"p", "-", "0">>}
BindPrefixes == {<<>>, <<"f", "-">>}

\* the keys and values of the multidicts, and a key that never occurs
FormdataKeys == {sA, sB}
FormdataValues == {s1, s2}
QueryKeys == FormdataKeys \cup {<<"f", "a", "k", "e">>}

\* the multidicts: every ordered list of at most MaxPairs pairs
Multidicts == SeqsUpTo(FormdataKeys \X FormdataValues, MaxPairs)

\* what a dict holds under a key: nothing, a list, a str
DictValues == {Unset, VList(<<>>), VList(<<s1>>), VList(<<s1, s2>>), VStr(s1)}
DictItem(k, v) == IF v = Unset THEN <<>> ELSE << <<k, v>> >>

\* the objects handed in as formdata: None, a webob multidict (which has get
\* as well), a multidict that has getlist, a dict, an object that has none
\* of the methods
FormdataObjects ==
    {None, Object({}, <<>>)}
    \cup {Object(ms, ps) : ms \in {{"getall"}, {"getall", "get"}, {"getlist", "get"}},
                           ps \in Multidicts}
    \cup {Object({"get"}, DictItem(sA, va) \o DictItem(sB, vb)) :
            va \in DictValues, vb \in DictValues}

\* the FieldLists declared for populate_obj
PopulatedListDecls ==
    {NewFieldList(sP, <<>>, UnboundField("String", <<>>, <<>>, d), mn, NoCap, <<>>) :
        d \in {None, VStr(<<"d">>)}, mn \in {0, 1}}

\* the formdata handed to them
PopulatedFormdatas ==
    {NoFormdata, Formdata(IndexPairs({0, 2})), Formdata(IndexPairs({1}))}

\* the objects handed to FieldList.populate_obj(obj, 'p'): without the
\* attribute, with None, with a value that is not iterable, with a str, with
\* a list of every length up to one more than the longest object data
ListObjs ==
    {Obj(<<>>), Obj(<< <<<<"q">>, VInt(1)>>, <<sP, None>> >>), Obj(<< <<sP, VInt(7)>> >>),
     Obj(<< <<sP, VStr(<<"u", "v">>)>> >>)}
    \cup {Obj(<< <<sP, VList([i \in 1..n |-> VStr(<<"e">> \o IntToStr(i))])>>,
                 <<<<"q">>, VInt(1)>> >>) : n \in 0..(MaxData + 1)}

----------------------------------------------------------------------------
(* The state machine: one subject (a scalar field, a FieldList, a          *)
(* FormField, the descriptors of a class body, or an object handed in as   *)
(* formdata) and the calls made on it.                                     *)

VARIABLES
    subject,    \* "field", "list", "formfield", "unbound", "formdata" or
                \* "meta": what the calls are made on
    field,      \* the scalar field, when subject = "field"
    flist,      \* the FieldList, when subject = "list"
    ffield,     \* the FormField, when subject = "formfield"
    unbound,    \* UnboundField.creation_counter and the descriptors created,
                \* when subject = "unbound"
    formdata,   \* the object handed in as formdata and what wrap_formdata
                \* made of it, when subject = "formdata"
    cache,      \* DefaultMeta.translations_cache, the dict of the class,
                \* when subject = "meta"
    threads,    \* the get_translations call each thread is in, when
                \* subject = "meta"
    last        \* history: the last call, its arguments and its outcome

vars == <<subject, field, flist, ffield, unbound, formdata, cache, threads, last>>

NoField == NewField("Field", <<>>, <<>>, <<>>, None, "text", <<>>)
NoFormField == NewFormField(<<>>, <<>>)
NoUnbound == <<"nounbound">>
NoObject == <<"noobject">>
NoCache == <<>>
NoThreads == <<>>
NotWrapped == <<"notwrapped">>
NoList == NewFieldList(<<>>, <<>>, UnboundField("Field", <<>>, <<>>, None), 0, NoCap, <<>>)

\* the history of the indices is not kept
NoHistory == <<>>

\* again, prev_ok and prev_errors describe a validate call that directly
\* follows a validate call with the same extra_validators: what that call
\* returned and the errors it left; obj is the object a populate_obj call
\* left, data the object it was handed and carriers the data its entries'
\* carriers started with; ret is what pop_entry, bind or a call on the
\* formdata returned; high is <<h>>, h the highest index any entry of the
\* FieldList was given so far and -1 when none was, in the specification
\* that keeps this history
Call(op, fd, data, extra, ok, exc, calls) ==
    [op |-> op, fd |-> fd, data |-> data, extra |-> extra, ok |-> ok, exc |-> exc,
     calls |-> calls, again |-> FALSE, prev_ok |-> FALSE, prev_errors |-> <<>>,
     obj |-> None, carriers |-> <<>>, ret |-> None, high |-> NoHistory]
NoCall == Call("new", NoFormdata, Unset, <<>>, FALSE, NoExc, <<>>)

\* the record of a validate call made in the current state
ValidateCall(extra, ok, calls, errors) ==
    IF last.op = "validate" /\ last.extra = extra
    THEN [Call("validate", NoFormdata, Unset, extra, ok, NoExc, calls)
            EXCEPT !.again = TRUE, !.prev_ok = last.ok, !.prev_errors = errors]
    ELSE Call("validate", NoFormdata, Unset, extra, ok, NoExc, calls)

\* the errors of the FieldList and of each of its entries
ListErrors(l) == <<l.errors, [i \in 1..Len(l.entries) |-> l.entries[i].f.errors]>>

\* a scalar field, or a FieldList declared for validation, is constructed
Init ==
    /\ last = NoCall
    /\ cache = NoCache /\ threads = NoThreads
    /\ unbound = NoUnbound /\ formdata = NoObject
    /\ \/ /\ subject = "field" /\ field \in FieldDecls
          /\ flist = NoList /\ ffield = NoFormField
       \/ /\ subject = "list" /\ flist \in ValidatedListDecls
          /\ field = NoField /\ ffield = NoFormField
       \/ /\ subject = "formfield" /\ ffield \in FormFieldDecls
          /\ field = NoField /\ flist = NoList

\* a FieldList is constructed
InitList ==
    /\ last = NoCall
    /\ cache = NoCache /\ threads = NoThreads
    /\ unbound = NoUnbound /\ formdata = NoObject
    /\ subject = "list" /\ flist \in ListDecls
    /\ field = NoField /\ ffield = NoFormField

\* there is a bound FormField: the subject, or the field the last bind
\* returned
HoldsFormField ==
    \/ subject = "formfield"
    \/ subject = "unbound" /\ ffield # NoFormField

\* a validate call on the scalar field ended with result r
FieldReturns(r, extra) ==
    /\ field' = r.f
    /\ last' = ValidateCall(extra, r.ok, r.calls, field.errors)

\* history: the highest index given so far, the entries of l being the
\* ones the call added or kept and h the highest index given before it
Highest(l, h) ==
    IF h = NoHistory THEN h
    ELSE LET given == {l.entries[i].index : i \in 1..Len(l.entries)} \cup {h[1]}
         IN <<CHOOSE x \in given : \A y \in given : y <= x>>

\* a call op(fd, data) on the FieldList ended with result r
ListReturns(r, op, fd, data) ==
    /\ flist' = r.l
    /\ last' = [Call(op, fd, data, <<>>, FALSE, r.exc, <<>>)
                  EXCEPT !.high = Highest(r.l, last.high)]

\* a validate call on the FieldList ended with result r
ListValidateReturns(r, extra) ==
    /\ flist' = r.l
    /\ last' = [ValidateCall(extra, r.ok, r.calls, ListErrors(flist))
                  EXCEPT !.exc = r.exc]

\* field.process(formdata, data)
ProcessField ==
    /\ subject = "field"
    /\ \E fd \in FieldFormdatas, data \in FieldData :
          /\ field' = FieldProcess(field, fd, data)
          /\ last' = Call("process", fd, data, <<>>, FALSE, NoExc, <<>>)
    /\ UNCHANGED <<cache, threads, unbound, formdata, subject, flist, ffield>>

\* field.validate(form, extra_validators)
ValidateField ==
    /\ subject = "field"
    /\ \E extra \in Extras :
          FieldReturns(FieldValidate(field, extra), extra)
    /\ UNCHANGED <<cache, threads, unbound, formdata, subject, flist, ffield>>

\* fieldlist.process(formdata, data), for formdata in fds and data in ds
ProcessListWith(fds, ds) ==
    /\ subject = "list"
    /\ flist.last_index < MaxLast
    /\ \E fd \in fds, data \in ds :
          ListReturns(ListProcess(flist, fd, data), "process", fd, data)
    /\ UNCHANGED <<cache, threads, unbound, formdata, subject, field, ffield>>

ProcessList == ProcessListWith(ListFormdatas, ListData_)
ProcessValidatedList == ProcessListWith(ValidatedFormdatas, ValidatedData)

\* fieldlist.append_entry(data)
AppendEntryCall ==
    /\ subject = "list"
    /\ flist.last_index < MaxLast
    /\ \E data \in {Unset, VStr(<<"n">>)} :
          ListReturns(AppendEntry(flist, data), "append_entry", NoFormdata, data)
    /\ UNCHANGED <<cache, threads, unbound, formdata, subject, field, ffield>>

\* fieldlist.pop_entry()
PopEntryCall ==
    /\ subject = "list"
    /\ flist' = PopEntry(flist).l
    /\ last' = [Call("pop_entry", NoFormdata, Unset, <<>>, FALSE, PopEntry(flist).exc, <<>>)
                  EXCEPT !.ret = PopEntry(flist).ret, !.high = last.high]
    /\ UNCHANGED <<cache, threads, unbound, formdata, subject, field, ffield>>

\* fieldlist.validate(form, extra_validators)
ValidateList ==
    /\ subject = "list"
    /\ \E extra \in Extras :
          ListValidateReturns(ListValidate(flist, extra), extra)
    /\ UNCHANGED <<cache, threads, unbound, formdata, subject, field, ffield>>

\* a validate call on the FormField ended with result r
FormFieldReturns(r, extra) ==
    /\ ffield' = r.ff
    /\ last' = [ValidateCall(extra, r.ok, <<>>, FormErrors(ffield.form))
                  EXCEPT !.exc = r.exc]

\* formfield.process(formdata, data)
ProcessFormField ==
    /\ HoldsFormField
    /\ \E fd \in FormFieldFormdatas, data \in FormFieldData_ :
          /\ ffield' = FormFieldProcess(ffield, fd, data)
          /\ last' = Call("process", fd, data, <<>>, FALSE, NoExc, <<>>)
    /\ UNCHANGED <<cache, threads, unbound, formdata, subject, field, flist>>

\* formfield.validate(form, extra_validators), once the enclosing form has
\* processed the field
ValidateFormField ==
    /\ HoldsFormField
    /\ ffield.form # NoForm
    /\ \E extra \in Extras :
          FormFieldReturns(FormFieldValidate(ffield, extra), extra)
    /\ UNCHANGED <<cache, threads, unbound, formdata, subject, field, flist>>

\* fieldlist.populate_obj(obj, 'p')
PopulateList ==
    /\ subject = "list"
    /\ \E o \in ListObjs :
          last' = [Call("populate_obj", NoFormdata, o, <<>>, FALSE, NoExc, <<>>)
                     EXCEPT !.obj = ListPopulateObj(flist, o, flist.short_name).obj,
                            !.carriers = ListPopulateObj(flist, o, flist.short_name).carriers,
                            !.exc = ListPopulateObj(flist, o, flist.short_name).exc]
    /\ UNCHANGED <<cache, threads, unbound, formdata, subject, field, flist, ffield>>

\* formfield.populate_obj(obj, 'f'), once the enclosing form has processed the
\* field
PopulateFormField ==
    /\ subject = "formfield"
    /\ ffield.form # NoForm
    /\ \E o \in FormFieldObjs :
          /\ ffield' = FormFieldPopulateObj(ffield, o, ffield.name).ff
          /\ last' = [Call("populate_obj", NoFormdata, o, <<>>, FALSE, NoExc, <<>>)
                        EXCEPT !.obj = FormFieldPopulateObj(ffield, o, ffield.name).obj,
                               !.exc = FormFieldPopulateObj(ffield, o, ffield.name).exc]
    /\ UNCHANGED <<cache, threads, unbound, formdata, subject, field, flist>>

\* process and validate, of scalar fields, FieldLists and FormFields
Next ==
    \/ ProcessField
    \/ ValidateField
    \/ ProcessValidatedList
    \/ ValidateList
    \/ ProcessFormField
    \/ ValidateFormField

Spec == Init /\ [][Next]_vars

\* process, append_entry and pop_entry of FieldLists
NextList ==
    \/ ProcessList
    \/ AppendEntryCall
    \/ PopEntryCall

SpecList == InitList /\ [][NextList]_vars

----------------------------------------------------------------------------
(* Properties of validate and of the scalar process, under Spec *)

\* the outcome of each validator of chain on the field or list ctx
Outcomes(chain, ctx) == [i \in 1..Len(chain) |-> CallValidator(chain[i], ctx)]

\* the position of the first validator of chain that raises StopValidation,
\* Len(chain) when none does
LastInvoked(chain, ctx) ==
    IF \E i \in 1..Len(chain) : Outcomes(chain, ctx)[i].kind = "stop"
    THEN CHOOSE i \in 1..Len(chain) :
            /\ Outcomes(chain, ctx)[i].kind = "stop"
            /\ \A j \in 1..(i - 1) : Outcomes(chain, ctx)[j].kind # "stop"
    ELSE Len(chain)

\* the validators of chain up to and including the first that halts
Invoked(chain, ctx) == SubSeq(chain, 1, LastInvoked(chain, ctx))

\* a failure that leaves a message: a ValueError, or a StopValidation that
\* carries one
LeavesMessage(o) == o.kind = "err" \/ (o.kind = "stop" /\ o.msg # "")

MessagesOf(outcomes) ==
    [i \in 1..Len(SelectSeq(outcomes, LeavesMessage)) |->
        SelectSeq(outcomes, LeavesMessage)[i].msg]

\* the messages the chain is to leave, in order
ChainMessages(chain, ctx) == MessagesOf(Outcomes(Invoked(chain, ctx), ctx))

\* the message pre_validate leaves
PreMessages(f) == MessagesOf(<<PreValidate(f)>>)

\* C1: validate called again with the same extra validators, with no call
\* in between, returns what it returned before and leaves the errors it
\* left before: of a scalar field, of a FieldList and each of its entries,
\* and of a FormField
C1_ValidateIdempotent ==
    last.again =>
        /\ last.ok = last.prev_ok
        /\ subject = "field" => field.errors = last.prev_errors
        /\ subject = "list" => ListErrors(flist) = last.prev_errors
        /\ subject = "formfield" => FormErrors(ffield.form) = last.prev_errors

\* a scalar field with a process error and a failing validator was validated
\* twice in a row
C1_Witness ==
    /\ subject = "field" /\ last.again /\ ~last.ok
    /\ Len(field.process_errors) > 0
    /\ Len(field.errors) > Len(field.process_errors)

\* C2: Field.validate invokes the validators, then the extra validators, in
\* order up to and including the first that raises StopValidation; errors
\* holds, after the process errors and the message of pre_validate, the
\* message of every invoked validator that raised ValueError or a
\* StopValidation with a message, in that order
C2_ChainOrder ==
    (subject = "field" /\ last.op = "validate") =>
        /\ last.calls = Invoked(field.validators \o last.extra, field)
        /\ field.errors = field.process_errors \o PreMessages(field)
                          \o ChainMessages(field.validators \o last.extra, field)

\* a non-halting failure, then a halting failure, then a validator that was
\* never invoked
C2_Witness ==
    /\ subject = "field" /\ last.op = "validate"
    /\ field.validators \o last.extra = <<vErr, vStop, vErr>>
    /\ last.calls = <<vErr, vStop>>
    /\ field.errors = field.process_errors \o <<"bad", "halt">>

\* C3: a validate call that returns, returns true exactly when errors is
\* empty afterwards, for a scalar field and for a FieldList
C3_TrueIffNoErrors ==
    (last.op = "validate" /\ last.exc = NoExc) =>
        /\ subject = "field" => (last.ok <=> field.errors = <<>>)
        /\ subject = "list" => (last.ok <=> flist.errors = <<>>)

\* a validation halted by a StopValidation without a message: nothing in
\* errors, and validate returned true
C3_Witness ==
    /\ subject = "field" /\ last.op = "validate" /\ last.ok
    /\ field.validators = <<vStopQ, vErr>>
    /\ last.calls = <<vStopQ>>

\* C4: after process, process_errors holds the message of every ValueError
\* that process_data, process_formdata or a filter raised, in the order
\* raised, and process raised no ValueError: for a scalar field, and for
\* every entry of a FieldList
C4_ProcessCaptures ==
    last.op = "process" =>
        /\ ~IsValueError(last.exc)
        /\ subject = "field" => field.process_errors = field.raised
        /\ subject = "list" =>
              \A i \in 1..Len(flist.entries) :
                  flist.entries[i].f.process_errors = flist.entries[i].f.raised

\* process_formdata could not parse the value submitted and a filter
\* rejected the data: both messages are in process_errors
C4_Witness ==
    /\ subject = "field" /\ last.op = "process"
    /\ field.kind = "Integer"
    /\ field.process_errors = <<"Not a valid integer value", "rejected">>

\* an entry whose validate returned false
Failed(e) == e.f.errors # <<>>

\* one element per failing entry, holding that entry's errors
FailedEntryErrors(entries) ==
    [i \in 1..Len(SelectSeq(entries, Failed)) |->
        <<"errors", SelectSeq(entries, Failed)[i].f.errors>>]

\* what the list's validators are handed: the list's data
ListContext(l) == [data |-> ListData(l), errors |-> <<>>]

\* C9: FieldList.validate, on a list that process has given its entries,
\* validates every entry, in order, before any of
\* the list's validators; errors holds one element per failing entry and
\* none for a passing one, then the messages of the list's validators and
\* extra validators, which run as far as their first StopValidation
\* whether or not an entry failed
C9_EntriesThenChain ==
    (subject = "list" /\ last.op = "validate" /\ flist.has_entries) =>
        /\ \A i \in 1..Len(flist.entries) :
              /\ last.calls[i] = <<"entry", i>>
              /\ flist.entries[i].f.errors
                    = FieldValidate(flist.entries[i].f, <<>>).f.errors
        /\ SubSeq(last.calls, Len(flist.entries) + 1, Len(last.calls))
              = [j \in 1..Len(Invoked(flist.validators \o last.extra, ListContext(flist))) |->
                    <<"validator",
                      Invoked(flist.validators \o last.extra, ListContext(flist))[j]>>]
        /\ flist.errors
              = FailedEntryErrors(flist.entries)
                \o Msgs(ChainMessages(flist.validators \o last.extra, ListContext(flist)))

\* the first entry failed, the second passed, and the list's own validator
\* ran and failed
C9_Witness ==
    /\ subject = "list" /\ last.op = "validate"
    /\ Len(flist.entries) = 2
    /\ Failed(flist.entries[1]) /\ ~Failed(flist.entries[2])
    /\ flist.validators = <<vErr>>
    /\ flist.errors = << <<"errors", <<"empty">> >>, <<"msg", "bad">> >>

\* the first value submitted under name
FirstValue(fd, name) ==
    Pairs(fd)[CHOOSE i \in 1..Len(Pairs(fd)) :
                /\ Pairs(fd)[i][1] = name
                /\ \A j \in 1..(i - 1) : Pairs(fd)[j][1] # name][2]

\* C10: a BooleanField processed with formdata holds False when its key is
\* absent or the first value submitted is one of false_values, and True
\* otherwise, whatever the object data and the default
C10_BooleanFromFormdata ==
    (subject = "field" /\ field.kind = "Boolean" /\ last.op = "process"
     /\ HasFormdata(last.fd)) =>
        field.data = VBool(~(\/ ~Contains(last.fd, field.name)
                             \/ FirstValue(last.fd, field.name) \in FalseValues))

\* the key was omitted, the object data and the default are truthy, and the
\* field holds False
C10_Witness ==
    /\ subject = "field" /\ field.kind = "Boolean" /\ last.op = "process"
    /\ HasFormdata(last.fd) /\ ~Contains(last.fd, field.name)
    /\ Truthy(last.data) /\ Truthy(field.default)
    /\ field.data = VBool(FALSE)

----------------------------------------------------------------------------
(* Properties of the entries of a FieldList, under SpecList *)

\* the indices the keys of fd carry for the list called name: a key that
\* begins with name and the separator "-", followed by digits that end the
\* key or end at another "-", carries the number the digits write
IndicesFor(fd, name) ==
    UNION {{DigitsToNat(SubSeq(k, Len(name) + 2, j), 0) :
                j \in {j \in (Len(name) + 2)..Len(k) :
                          /\ SubSeq(k, 1, Len(name) + 1) = name \o <<"-">>
                          /\ IsDigitStr(SubSeq(k, Len(name) + 2, j))
                          /\ (j = Len(k) \/ k[j + 1] = "-")}} :
           k \in SeqToSet(KeysOf(fd))}

\* x is the Rank(S, x)-th smallest member of S
Rank(S, x) == Cardinality({y \in S : y <= x})

\* the k-th entry is bound to the k-th smallest index of S, is named after
\* that index, and holds the value submitted under that name
BoundInOrder(l, fd, S) ==
    \A x \in S :
        Rank(S, x) <= Len(l.entries) =>
            /\ l.entries[Rank(S, x)].f.name = ListName(l) \o <<"-">> \o IntToStr(x)
            /\ Contains(fd, ListName(l) \o <<"-">> \o IntToStr(x)) =>
                  l.entries[Rank(S, x)].f.data
                      = VStr(FirstValue(fd, ListName(l) \o <<"-">> \o IntToStr(x)))

\* C5 as stated: process with formdata materializes one entry per index
\* the keys carry for this list, ascending, each named <list-name>-<index>
\* and holding the value submitted under that name (taken with no cap and
\* no min_entries, so that neither truncation nor padding is involved).
\* It fails when the formdata also holds a key that begins with the list's
\* name without the separator, the behaviour of _extract_indices that C28
\* is about: such a key yields an entry of its own
C5_OnePerIndex ==
    (last.op = "process" /\ FormdataTruthy(last.fd) /\ last.exc = NoExc
     /\ flist.max_entries = NoCap /\ flist.min_entries = 0) =>
        /\ Len(flist.entries) = Cardinality(IndicesFor(last.fd, ListName(flist)))
        /\ BoundInOrder(flist, last.fd, IndicesFor(last.fd, ListName(flist)))

\* C6 as stated: after process returns len(entries) >= min_entries, and
\* with min_entries = 3, no formdata and empty data there are exactly 3
\* entries, each holding the empty string
C6_PaddedWithEmptyString ==
    (last.op = "process" /\ last.exc = NoExc) =>
        /\ Len(flist.entries) >= flist.min_entries
        /\ (flist.min_entries = 3 /\ last.fd = NoFormdata
            /\ last.data \in {Unset, VList(<<>>)}) =>
              /\ Len(flist.entries) = 3
              /\ \A i \in 1..3 : flist.entries[i].f.data = VStr(<<>>)

\* C6: after process returns len(entries) >= min_entries, and with no
\* formdata and empty data there are exactly min_entries entries, each
\* holding the default the template was declared with: None for a
\* StringField template declared without a default
C6_PaddedWithDefault ==
    (last.op = "process" /\ last.exc = NoExc) =>
        /\ Len(flist.entries) >= flist.min_entries
        /\ (last.fd = NoFormdata /\ last.data \in {Unset, VList(<<>>)}) =>
              /\ Len(flist.entries) = flist.min_entries
              /\ \A i \in 1..Len(flist.entries) :
                    flist.entries[i].f.data = flist.unbound_field.default

\* process(None, []) of a list with min_entries = 3 and a StringField
\* template without a default left three entries holding None
C6_Witness ==
    /\ last.op = "process" /\ last.exc = NoExc
    /\ last.fd = NoFormdata /\ last.data = VList(<<>>)
    /\ flist.min_entries = 3 /\ flist.unbound_field.default = None
    /\ Len(flist.entries) = 3
    /\ \A i \in 1..3 : flist.entries[i].f.data = None

\* C7 as stated: with max_entries = m and formdata whose keys carry more
\* than m indices for this list, process materializes exactly m entries,
\* bound to the m lowest indices in ascending order.  It fails with C5, on
\* the key that begins with the list's name without the separator (C28)
C7_LowestIndicesKept ==
    (last.op = "process" /\ FormdataTruthy(last.fd)
     /\ flist.max_entries # NoCap
     /\ Cardinality(IndicesFor(last.fd, ListName(flist))) > flist.max_entries[2]) =>
        /\ Len(flist.entries) = flist.max_entries[2]
        /\ BoundInOrder(flist, last.fd, IndicesFor(last.fd, ListName(flist)))

\* C8 as stated: when max_entries is set, to any number, len(entries) <=
\* max_entries in every state that process, append_entry and pop_entry
\* reach, and a call that failed on the cap left the list full
C8_CapHolds ==
    (subject = "list" /\ flist.max_entries # NoCap) =>
        /\ Len(flist.entries) <= flist.max_entries[2]
        /\ last.exc = AssertionError => Len(flist.entries) = flist.max_entries[2]

----------------------------------------------------------------------------
(* Properties of the field classes, under Spec *)

\* C11: an IntegerField without filters, processed with formdata that
\* holds its key: when the first raw value parses as an integer, data is
\* that integer and there is no process error; when it does not, data is
\* None, process_errors is exactly "Not a valid integer value", raw_data
\* keeps the values submitted and value() returns the first of them
C11_IntegerParse ==
    (subject = "field" /\ field.kind = "Integer" /\ field.filters = <<>>
     /\ last.op = "process" /\ HasFormdata(last.fd) /\ Contains(last.fd, field.name)) =>
        IF IntParses(FirstValue(last.fd, field.name))
        THEN /\ field.data = VInt(IntParse(FirstValue(last.fd, field.name)))
             /\ field.process_errors = <<>>
        ELSE /\ field.data = None
             /\ field.process_errors = <<"Not a valid integer value">>
             /\ field.raw_data = Raw(GetList(last.fd, field.name))
             /\ IntegerValue(field) = FirstValue(last.fd, field.name)

\* "abc" was submitted over the object data "2": data is None, one process
\* error, and value() redisplays "abc"
C11_Witness ==
    /\ subject = "field" /\ field.kind = "Integer" /\ field.filters = <<>>
    /\ last.op = "process" /\ last.data = VStr(s2)
    /\ last.fd = Formdata(<< <<sA, sAbc>> >>)
    /\ field.data = None
    /\ field.process_errors = <<"Not a valid integer value">>
    /\ IntegerValue(field) = <<"a", "b", "c">>

\* C12 as stated: pre_validate of a select field passes exactly when data
\* equals the coerced value of some entry of choices.  pre_validate
\* compares data with the value of each choice as declared, without
\* coercing it, so with choices ("1", "One"), ("2", "Two") and coerce=int
\* the submitted "2" is rejected
C12_SelectMembership ==
    (subject = "field" /\ field.kind = "Select" /\ last.op = "validate") =>
        ((\A i \in 1..Len(field.errors) : field.errors[i] # "Not a valid choice")
         <=> \E i \in 1..Len(field.choices) :
                /\ Coerce(field.coerce, field.choices[i][1]).exc = NoExc
                /\ field.data = Coerce(field.coerce, field.choices[i][1]).val)

\* the value a field class derives from the raw values submitted under its
\* key: the first raw string, parsed or coerced by the class, None when it
\* cannot be
FromFormdata(f, valuelist) ==
    CASE f.kind = "Integer" ->
            IF IntParses(valuelist[1]) THEN VInt(IntParse(valuelist[1])) ELSE None
      [] f.kind = "Boolean" -> VBool(valuelist[1] \notin FalseValues)
      [] f.kind = "Select" ->
            IF Coerce(f.coerce, VStr(valuelist[1])).exc = NoExc
            THEN Coerce(f.coerce, VStr(valuelist[1])).val ELSE None
      [] OTHER -> VStr(valuelist[1])

\* C13 as stated: after process with formdata that holds the field's key,
\* data is the value derived from the raw values, whatever the object data
\* and the default (taken for fields without filters).  A select field
\* whose raw value cannot be coerced keeps the data that process_data
\* stored from the object data
C13_FormdataPrecedence ==
    (subject = "field" /\ last.op = "process" /\ field.filters = <<>>
     /\ HasFormdata(last.fd) /\ Contains(last.fd, field.name)) =>
        field.data = FromFormdata(field, GetList(last.fd, field.name))

\* what an append_entry step does
AppendStep ==
    IF last'.exc = NoExc
    THEN /\ Len(flist'.entries) = Len(flist.entries) + 1
         /\ SubSeq(flist'.entries, 1, Len(flist.entries)) = flist.entries
         /\ flist'.last_index = flist.last_index + 1
         /\ flist'.entries[Len(flist'.entries)].f.name
               = ListName(flist) \o <<"-">> \o IntToStr(flist.last_index + 1)
         /\ flist'.entries[Len(flist'.entries)].f.raw_data = NoRaw
         /\ flist'.entries[Len(flist'.entries)].f.data
               = IF last'.data = Unset THEN flist.unbound_field.default ELSE last'.data
    ELSE /\ last'.exc = AssertionError
         /\ flist.max_entries # NoCap /\ Len(flist.entries) = flist.max_entries[2]
         /\ flist' = flist

\* C15: append_entry creates the new entry at index last_index + 1, named
\* <list-name>-<last_index + 1>, appends it at the end of entries, sets
\* last_index to that index and processes it with no formdata: its data is
\* the object data given, or the template's default, also when the list was
\* last processed with formdata.  On a list that process has given its
\* entries it fails, changing nothing, only when the list is full
C15_AppendEntry ==
    [][(last'.op = "append_entry" /\ flist.has_entries) => AppendStep]_vars

\* an entry appended to a list that was processed with formdata for the
\* indices 0 and 2: it is the third entry, named p-3, and saw no formdata
C15_Witness ==
    /\ last.op = "append_entry" /\ last.exc = NoExc
    /\ Len(flist.entries) = 3
    /\ flist.entries[1].f.raw_data # NoRaw
    /\ flist.entries[2].f.name = <<"p", "-", "2">>
    /\ flist.entries[3].f.name = <<"p", "-", "3">>
    /\ flist.entries[3].f.raw_data = NoRaw
    /\ flist.last_index = 3

\* what a pop_entry step does
PopStep ==
    IF flist.has_entries /\ flist.entries # <<>>
    THEN /\ last'.exc = NoExc
         /\ last'.ret = flist.entries[Len(flist.entries)]
         /\ flist'.entries = SubSeq(flist.entries, 1, Len(flist.entries) - 1)
         /\ flist'.last_index = flist.last_index - 1
    ELSE /\ last'.exc = IF flist.has_entries THEN IndexError ELSE AttributeError
         /\ flist' = flist

\* C16: pop_entry on a non-empty list removes and returns the last element
\* of entries and decrements last_index by one; on an empty list, and on
\* one that has no entries yet, it fails and leaves the list as it was
C16_PopEntry == [][last'.op = "pop_entry" => PopStep]_vars

\* the last of two entries was popped and returned
C16_Witness ==
    /\ last.op = "pop_entry" /\ last.exc = NoExc
    /\ Len(flist.entries) = 1
    /\ last.ret.f.name = <<"p", "-", "2">>
    /\ flist.entries[1].f.name = <<"p", "-", "0">>
    /\ flist.last_index = 1
----------------------------------------------------------------------------
(* Descriptors and their binding: the specification SpecBind *)

\* the module is imported: no descriptor was created
InitBind ==
    /\ last = NoCall
    /\ cache = NoCache /\ threads = NoThreads
    /\ subject = "unbound"
    /\ unbound = [creation_counter |-> 0, descriptors |-> <<>>]
    /\ field = NoField /\ flist = NoList /\ ffield = NoFormField /\ formdata = NoObject

\* a field class is called without _form and _name: StringField(...) in a
\* class body, or as the template of a FieldList
DeclareField ==
    /\ subject = "unbound"
    /\ Len(unbound.descriptors) < MaxDecl
    /\ \E u \in UnboundDecls :
          /\ unbound' = FieldNew(unbound, u, FALSE, <<>>, <<>>).state
          /\ last' = [Call("declare", NoFormdata, Unset, <<>>, FALSE, NoExc, <<>>)
                        EXCEPT !.ret = FieldNew(unbound, u, FALSE, <<>>, <<>>).ret]
    /\ UNCHANGED <<cache, threads, formdata, subject, field, flist, ffield>>

\* descriptor.bind(form, name, prefix); again tells that the call before was
\* a bind as well; ffield is the FormField the call returned, if it did
BindCall ==
    /\ subject = "unbound"
    /\ \E i \in 1..Len(unbound.descriptors), name \in BindNames, prefix \in BindPrefixes :
          /\ unbound' = UnboundBind(unbound, i, name, prefix).state
          /\ last' = [Call("bind", NoFormdata, Unset, <<>>, FALSE,
                            UnboundBind(unbound, i, name, prefix).exc, <<>>)
                        EXCEPT !.data = [descriptor |-> i, name |-> name, prefix |-> prefix],
                               !.ret = UnboundBind(unbound, i, name, prefix).ret,
                               !.again = (last.op = "bind")]
          /\ ffield' = IF /\ unbound.descriptors[i].u.kind = "FormField"
                          /\ UnboundBind(unbound, i, name, prefix).exc = NoExc
                       THEN UnboundBind(unbound, i, name, prefix).ret
                       ELSE NoFormField
    /\ UNCHANGED <<cache, threads, formdata, subject, field, flist>>

NextBind ==
    \/ DeclareField
    \/ BindCall
    \/ ProcessFormField
    \/ ValidateFormField

SpecBind == InitBind /\ [][NextBind]_vars

\* the field of the class and with the arguments of the descriptor, under the
\* name prefix + name, as a constructor leaves it
BoundFrom(f, d, name, prefix) ==
    CASE d.u.kind = "FormField" ->
            /\ f.name = prefix \o name /\ f.form_class = d.u.form_class
            /\ f.form = NoForm
      [] d.u.kind = "FieldList" ->
            /\ ListName(f) = prefix \o name /\ f.unbound_field = d.u.unbound_field
            /\ f.validators = d.u.validators
            /\ ~f.has_entries /\ f.last_index = -1
      [] OTHER ->
            /\ f = NewField(d.u.kind, prefix \o name, d.u.validators, d.u.filters,
                            d.u.default, d.u.coerce, d.u.choices)
            /\ f.data = None /\ f.raw_data = NoRaw /\ f.errors = <<>>

\* C18: bind never changes the descriptor: its field class, its captured
\* arguments and its creation counter are as before, as are those of every
\* other descriptor; the creation counter of the process is not advanced;
\* and the call, when the constructor does not raise, returns a newly
\* constructed bound field
C18_BindLeavesDescriptor ==
    [][last'.op = "bind" =>
          /\ unbound'.descriptors = unbound.descriptors
          /\ unbound'.creation_counter = unbound.creation_counter
          /\ last'.exc = NoExc =>
                BoundFrom(last'.ret, unbound.descriptors[last'.data.descriptor],
                          last'.data.name, last'.data.prefix)]_vars

\* the first of two descriptors was bound twice in a row, the second time as
\* a FieldList binds an entry: both descriptors still carry the counters they
\* were created with
C18_Witness ==
    /\ subject = "unbound" /\ last.op = "bind" /\ last.again
    /\ last.data.descriptor = 1 /\ last.data.name = <<"p", "-", "0">>
    /\ last.exc = NoExc /\ unbound.descriptors[1].u.kind = "String"
    /\ last.ret.name = <<"p", "-", "0">>
    /\ unbound.creation_counter = 2
    /\ unbound.descriptors[1].creation_counter = 1
    /\ unbound.descriptors[2].creation_counter = 2

----------------------------------------------------------------------------
(* Formdata and its wrappers: the specification SpecWrap *)

\* an object is about to be handed to a form as formdata
InitWrap ==
    /\ last = NoCall
    /\ cache = NoCache /\ threads = NoThreads
    /\ subject = "formdata"
    /\ \E x \in FormdataObjects : formdata = [given |-> x, wrapped |-> NotWrapped]
    /\ field = NoField /\ flist = NoList /\ ffield = NoFormField /\ unbound = NoUnbound

\* meta.wrap_formdata(form, formdata)
WrapCall ==
    /\ subject = "formdata"
    /\ formdata' = [formdata EXCEPT !.wrapped =
                        IF WrapFormdata(formdata.given).exc = NoExc
                        THEN WrapFormdata(formdata.given).ret ELSE @]
    /\ last' = [Call("wrap_formdata", NoFormdata, formdata.given, <<>>, FALSE,
                     WrapFormdata(formdata.given).exc, <<>>)
                  EXCEPT !.ret = WrapFormdata(formdata.given).ret]
    /\ UNCHANGED <<cache, threads, unbound, subject, field, flist, ffield>>

\* the object is a WebobInputWrapper or a DictWrapper
IsWrapper(w) == w[1] \in {"formdata", "dictwrapper"}

\* a call on the wrapper returned ret or raised exc; arg is its argument
WrapperReturns(op, arg, ret, exc) ==
    /\ subject = "formdata"
    /\ IsWrapper(formdata.wrapped)
    /\ last' = [Call(op, NoFormdata, arg, <<>>, FALSE, exc, <<>>) EXCEPT !.ret = ret]
    /\ UNCHANGED <<cache, threads, unbound, formdata, subject, field, flist, ffield>>

\* wrapper.getlist(name)
GetlistCall ==
    \E name \in QueryKeys :
        WrapperReturns("getlist", name, WrapperGetlist(formdata.wrapped, name).ret,
                       WrapperGetlist(formdata.wrapped, name).exc)

\* name in wrapper
ContainsCall ==
    \E name \in QueryKeys :
        WrapperReturns("contains", name, Contains(formdata.wrapped, name), NoExc)

\* list(wrapper)
IterCall == WrapperReturns("iter", None, KeysOf(formdata.wrapped), NoExc)

\* len(wrapper)
LenCall == WrapperReturns("len", None, FormdataLen(formdata.wrapped), NoExc)

\* bool(wrapper)
BoolCall == WrapperReturns("bool", None, FormdataTruthy(formdata.wrapped), NoExc)

NextWrap ==
    \/ WrapCall
    \/ GetlistCall
    \/ ContainsCall
    \/ IterCall
    \/ LenCall
    \/ BoolCall

SpecWrap == InitWrap /\ [][NextWrap]_vars

\* the items of the object under the key
ItemsUnder(x, name) == SelectSeq(x[3], LAMBDA p : p[1] = name)

\* the wrapper answers membership and iteration as the object's keys tell,
\* and getlist with the values of a key the object holds: all its values in
\* order for a multidict, the list stored for a dict
ProvidesMapping(w, x) ==
    /\ IsWrapper(w)
    /\ KeysOf(w) = [i \in 1..Len(x[3]) |-> x[3][i][1]]
    /\ \A name \in QueryKeys :
          /\ Contains(w, name) <=> ItemsUnder(x, name) # <<>>
          /\ (Exposes(x, "getall") /\ ItemsUnder(x, name) # <<>>) =>
                /\ WrapperGetlist(w, name).exc = NoExc
                /\ WrapperGetlist(w, name).ret
                      = [i \in 1..Len(ItemsUnder(x, name)) |-> ItemsUnder(x, name)[i][2]]
          /\ (~Exposes(x, "getall") /\ ItemsUnder(x, name) # <<>>
                /\ ItemsUnder(x, name)[1][2][1] = "list") =>
                /\ WrapperGetlist(w, name).exc = NoExc
                /\ WrapperGetlist(w, name).ret = ItemsUnder(x, name)[1][2][2]

\* C19 as stated: wrap_formdata returns None for None and an object that
\* has getlist unchanged; an object that has getall, and one that has only
\* get, comes back as an adapter that answers membership, getlist and key
\* iteration; an object with none of the three raises a TypeError
C19_WrapFormdata ==
    (subject = "formdata" /\ last.op = "wrap_formdata") =>
        IF last.data = None THEN last.exc = NoExc /\ last.ret = None
        ELSE IF Exposes(last.data, "getlist") THEN last.exc = NoExc /\ last.ret = last.data
        ELSE IF Exposes(last.data, "getall") \/ Exposes(last.data, "get")
             THEN last.exc = NoExc /\ ProvidesMapping(last.ret, last.data)
        ELSE last.exc = TypeError /\ formdata.wrapped = NotWrapped

\* C20: over a multidict given as an ordered list of pairs, getlist(k)
\* returns the values paired with k in their order, and the empty list when
\* k is absent; membership holds exactly for the keys of some pair;
\* iteration yields the keys in pair order, repeats included; len is the
\* number of pairs, and the wrapper is falsy exactly when there is none
C20_WebobInputWrapper ==
    (subject = "formdata" /\ formdata.wrapped[1] = "formdata") =>
        /\ last.op = "getlist" =>
              /\ last.exc = NoExc
              /\ last.ret = [i \in 1..Len(ItemsUnder(formdata.given, last.data)) |->
                                ItemsUnder(formdata.given, last.data)[i][2]]
        /\ last.op = "contains" =>
              (last.ret <=> \E i \in 1..Len(formdata.given[3]) :
                                formdata.given[3][i][1] = last.data)
        /\ last.op = "iter" =>
              last.ret = [i \in 1..Len(formdata.given[3]) |-> formdata.given[3][i][1]]
        /\ last.op = "len" => last.ret = Len(formdata.given[3])
        /\ last.op = "bool" => (last.ret <=> formdata.given[3] # <<>>)

\* getlist('a') over the pairs (a, 1), (b, 2), (a, 2) returned 1 and 2
C20_Witness ==
    /\ subject = "formdata" /\ formdata.wrapped[1] = "formdata"
    /\ formdata.given[3] = << <<sA, s1>>, <<sB, s2>>, <<sA, s2>> >>
    /\ last.op = "getlist" /\ last.data = sA
    /\ last.ret = <<s1, s2>>

----------------------------------------------------------------------------
(* Writing data back onto an object: the specification SpecObj *)

\* a FieldList is constructed for populate_obj
InitObj ==
    /\ last = NoCall
    /\ cache = NoCache /\ threads = NoThreads
    /\ unbound = NoUnbound /\ formdata = NoObject
    /\ field = NoField
    /\ \/ /\ subject = "list" /\ flist \in PopulatedListDecls
          /\ ffield = NoFormField
       \/ /\ subject = "formfield" /\ ffield \in PopulatedFormFieldDecls
          /\ flist = NoList

ProcessPopulatedList == ProcessListWith(PopulatedFormdatas, ListData_)

\* process, append_entry and populate_obj
NextObj ==
    \/ ProcessPopulatedList
    \/ AppendEntryCall
    \/ PopulateList
    \/ ProcessFormField
    \/ PopulateFormField

SpecObj == InitObj /\ [][NextObj]_vars

\* the items of the collection found at the attribute: none when it is
\* missing, None or not iterable
ExistingItems(o, name) ==
    IF ~HasAttr(o, name) THEN <<>>
    ELSE IF GetAttr(o, name)[1] = "list" THEN GetAttr(o, name)[2]
    ELSE IF GetAttr(o, name)[1] = "str"
         THEN [i \in 1..Len(GetAttr(o, name)[2]) |-> VStr(<<GetAttr(o, name)[2][i]>>)]
    ELSE <<>>

\* C14: FieldList.populate_obj, on a list that process has given its
\* entries, leaves at obj.name a list of exactly
\* len(entries) elements; the carrier of entry i starts with the existing
\* i-th item, or None when there is none, and element i is what the entry's
\* populate_obj leaves on it: the entry's data, for an entry that is a
\* scalar field; every other attribute of obj is as it was
C14_PopulateList ==
    (subject = "list" /\ last.op = "populate_obj" /\ flist.has_entries) =>
        /\ GetAttr(last.obj, flist.short_name)[1] = "list"
        /\ Len(GetAttr(last.obj, flist.short_name)[2]) = Len(flist.entries)
        /\ Len(last.carriers) = Len(flist.entries)
        /\ \A i \in 1..Len(flist.entries) :
              /\ last.carriers[i]
                    = IF i <= Len(ExistingItems(last.data, flist.short_name))
                      THEN ExistingItems(last.data, flist.short_name)[i] ELSE None
              /\ GetAttr(last.obj, flist.short_name)[2][i] = flist.entries[i].f.data
        /\ \A k \in 1..Len(last.data[2]) :
              last.data[2][k][1] # flist.short_name =>
                  GetAttr(last.obj, last.data[2][k][1]) = last.data[2][k][2]

\* three entries written over an existing list of one item: the list was
\* padded with None and the output has three elements
C14_Witness ==
    /\ subject = "list" /\ last.op = "populate_obj"
    /\ Len(flist.entries) = 3
    /\ Len(ExistingItems(last.data, flist.short_name)) = 1
    /\ last.carriers[1] # None /\ last.carriers[2] = None /\ last.carriers[3] = None
    /\ Len(GetAttr(last.obj, flist.short_name)[2]) = 3


\* C17: when obj has no attribute under the name, or None, populate_obj
\* falls back to the object the most recent process call was given or resolved
\* as data, sets it on obj and populates into it; it fails with a TypeError
\* only when that process call had no object either
C17_FallsBackToProcessData ==
    [][(subject = "formfield" /\ last'.op = "populate_obj"
        /\ GetAttrOrNone(last'.data, ffield.name) = None)
       => IF ffield.object_data # None
          THEN /\ last'.exc = NoExc
               /\ GetAttr(last'.obj, ffield.name) = Populated(ffield, ffield.object_data)
          ELSE last'.exc = TypeError]_vars


(* Properties of the hooks of validate, under SpecHooks *)

\* the validators declared on a field that overrides the hooks
HookValidators == {<<>>, <<vErr>>, <<vStop>>, <<vNonEmpty, vStopQ>>}

\* the fields that override pre_validate or post_validate, with and without
\* a filter that rejects the data, and integer and select fields that do not
HookDecls ==
    {NewField(k, sA, vs, fs, None, "text", <<>>) :
        k \in HookKinds, vs \in HookValidators, fs \in {<<>>, <<fReject>>}}
    \cup {NewField("Integer", sA, vs, <<>>, None, "text", <<>>) : vs \in HookValidators}
    \cup {NewField("Select", sA, <<vErr>>, <<>>, None, "int", IntChoices)}

\* a scalar field is constructed
InitHooks ==
    /\ last = NoCall
    /\ cache = NoCache /\ threads = NoThreads
    /\ unbound = NoUnbound /\ formdata = NoObject
    /\ subject = "field" /\ field \in HookDecls
    /\ flist = NoList /\ ffield = NoFormField

NextHooks ==
    \/ ProcessField
    \/ ValidateField

SpecHooks == InitHooks /\ [][NextHooks]_vars

\* pre_validate or an invoked validator raised StopValidation
StopSignalled(f, calls) ==
    \/ PreValidate(f).kind = "stop"
    \/ \E i \in 1..Len(calls) : CallValidator(calls[i], f).kind = "stop"

\* the message post_validate leaves when handed stopped
PostMessages(f, stopped) == MessagesOf(<<PostValidate(f, stopped)>>)

\* the number of messages of post_validate in errs
PostCount(errs) ==
    Cardinality({i \in 1..Len(errs) : errs[i] \in {"post", "post-stopped"}})

\* C23: within one Field.validate call pre_validate runs first; the
\* validator chain runs exactly when pre_validate did not raise
\* StopValidation, so it runs after a ValueError of pre_validate, whose
\* message is recorded; post_validate runs once, last, whatever failed or
\* halted, and is handed stopped = true exactly when pre_validate or a
\* validator raised StopValidation
C23_HookOrder ==
    (subject = "field" /\ last.op = "validate") =>
        /\ PreValidate(field).kind = "stop" => last.calls = <<>>
        /\ PreValidate(field).kind # "stop" =>
              last.calls = Invoked(field.validators \o last.extra, field)
        /\ PreValidate(field).kind = "err" =>
              /\ Len(field.errors) > Len(field.process_errors)
              /\ field.errors[Len(field.process_errors) + 1] = PreValidate(field).msg
        /\ field.kind \in HookKinds =>
              /\ PostCount(field.errors) = 1
              /\ field.errors[Len(field.errors)] =
                    IF StopSignalled(field, last.calls) THEN "post-stopped" ELSE "post"

\* pre_validate raised a ValueError, the chain ran and its second validator
\* halted it, and post_validate was told so
C23_Witness ==
    /\ subject = "field" /\ last.op = "validate"
    /\ field.kind = "PreFails"
    /\ last.calls = <<vErr, vStop>>
    /\ field.errors = field.process_errors \o <<"pre", "bad", "halt", "post-stopped">>


\* C24: after Field.validate, errors holds the messages process_errors got
\* from the most recent process call, in order, then the message of
\* pre_validate, then those of the validators invoked, then that of
\* post_validate; process_errors is as process left it
C24_ErrorsLayout ==
    (subject = "field" /\ last.op = "validate") =>
        /\ field.process_errors = field.raised
        /\ field.errors =
              field.raised \o PreMessages(field)
              \o ChainMessages(last.calls, field)
              \o PostMessages(field, StopSignalled(field, last.calls))

\* a filter rejected the data, then pre_validate, a validator and
\* post_validate each left a message
C24_Witness ==
    /\ subject = "field" /\ last.op = "validate"
    /\ field.kind = "PreFails"
    /\ field.process_errors = <<"rejected">>
    /\ field.errors = <<"rejected", "pre", "bad", "post">>


(* Properties of the scalar process, under Spec *)

\* the output of the k-th of filters when each is fed the output of the one
\* before it, the first being fed d
RECURSIVE Applied(_, _, _)
Applied(filters, d, k) ==
    IF k = 0 THEN d ELSE CallFilter(filters[k], Applied(filters, d, k - 1)).val

\* the k-th of filters raises on the output of the one before it
Rejects(filters, d, k) == CallFilter(filters[k], Applied(filters, d, k - 1)).exc # NoExc

\* the number of filters that succeed before the first that raises
Succeeded(filters, d) ==
    IF \E k \in 1..Len(filters) : Rejects(filters, d, k)
    THEN SetMin({k \in 1..Len(filters) : Rejects(filters, d, k)}) - 1
    ELSE Len(filters)

\* the field as process(fd, data) leaves it before the filters run; process
\* assigns every attribute it reads, so this is the same whether f is the
\* field before the call or after it
Unfiltered(f, fd, data) == FormdataStep(DataStep(f, ResolveData(f, data)), fd)

\* C25: Field.process applies the filters in the order declared, each to
\* the output of the one before; when one raises a ValueError its message
\* is appended to process_errors, no later filter is applied and data is
\* the output of the last filter that succeeded
C25_FiltersInOrder ==
    (subject = "field" /\ last.op = "process") =>
        LET u == Unfiltered(field, last.fd, last.data)
            n == Succeeded(field.filters, u.data)
        IN /\ field.data = Applied(field.filters, u.data, n)
           /\ field.process_errors =
                 IF n < Len(field.filters)
                 THEN Append(u.process_errors, "rejected") ELSE u.process_errors

\* the first filter extended the string submitted, the second raised and the
\* third, which would have shortened the string, was not applied
C25_Witness ==
    /\ subject = "field" /\ last.op = "process"
    /\ field.filters = <<fAddX, fReject, fFirst>>
    /\ field.data = VStr(sAbc \o <<"X">>)
    /\ field.process_errors = <<"rejected">>


\* the values the call process(fd, ...) supplied under name, in order
Supplied(fd, name) ==
    IF HasFormdata(fd) /\ Contains(fd, name) THEN GetAll(Pairs(fd), name) ELSE <<>>

\* C26: after Field.process, raw_data holds the values that call supplied
\* under the field's name, all of them in order, and nothing when it
\* supplied none (None, as on a new field, or the empty list); never the
\* values of an earlier process call
C26_RawDataOfThisCall ==
    (subject = "field" /\ last.op = "process") =>
        \/ field.raw_data = Raw(Supplied(last.fd, field.name))
        \/ field.raw_data = NoRaw /\ Supplied(last.fd, field.name) = <<>>


\* what process_data of a select field makes of the object data d
CoercedObjectData(f, d) ==
    IF Coerce(f.coerce, d).exc = NoExc THEN Coerce(f.coerce, d).val ELSE None

\* C27: when the first value submitted to a select field cannot be coerced,
\* process_errors is exactly "Invalid Choice: could not coerce" and data is
\* what process_data made of the object data or default; an integer field
\* whose value cannot be parsed is left with data None
C27_SelectKeepsData ==
    (subject = "field" /\ last.op = "process" /\ field.filters = <<>>
     /\ Supplied(last.fd, field.name) # <<>>) =>
        /\ (field.kind = "Select"
            /\ Coerce(field.coerce, VStr(Supplied(last.fd, field.name)[1])).exc # NoExc) =>
              /\ field.process_errors = <<"Invalid Choice: could not coerce">>
              /\ field.data = CoercedObjectData(field, ResolveData(field, last.data))
        /\ (field.kind = "Integer" /\ ~IntParses(Supplied(last.fd, field.name)[1])) =>
              field.data = None

\* 'abc' was submitted to a select field that coerces with int and was
\* handed the object data '2': data is 2
C27_Witness ==
    /\ subject = "field" /\ last.op = "process"
    /\ field.kind = "Select" /\ field.coerce = "int"
    /\ Supplied(last.fd, field.name) = <<sAbc>>
    /\ last.data = VStr(s2)
    /\ field.data = VInt(2)
    /\ field.process_errors = <<"Invalid Choice: could not coerce">>


(* Properties of FieldList.process, under SpecList *)

\* C28 as stated: process takes an index only from the keys that begin with
\* the list's name followed by '-', the digits right after that separator:
\* every entry made from formdata has such an index (taken with
\* min_entries = 0, so that no entry comes from padding).  A key with
\* another character where the separator should be yields an entry too
C28_IndicesOfOwnKeys ==
    (last.op = "process" /\ FormdataTruthy(last.fd) /\ last.exc = NoExc
     /\ flist.min_entries = 0) =>
        \A i \in 1..Len(flist.entries) :
            flist.entries[i].index \in IndicesFor(last.fd, ListName(flist))


\* max(min_entries, min(n, max_entries if set))
ExpectedCount(l, n) ==
    LET capped == IF l.max_entries # NoCap /\ n > l.max_entries[2]
                  THEN l.max_entries[2] ELSE n
    IN IF capped < l.min_entries THEN l.min_entries ELSE capped

\* C29 as stated: process starts from no entries, and with formdata the
\* number of entries it leaves is max(min_entries, min(d, max_entries if
\* set)), d being the number of distinct indices the keys carry for this
\* list, whatever the entries before the call and the length of the object
\* data.  It fails on a key that begins with the list's name without the
\* separator (C28), which adds an index of its own
C29_EntryCount ==
    (last.op = "process" /\ FormdataTruthy(last.fd) /\ last.exc = NoExc) =>
        Len(flist.entries)
            = ExpectedCount(flist, Cardinality(IndicesFor(last.fd, ListName(flist))))


\* C30: in process with formdata the k-th index kept, in ascending order,
\* makes the k-th entry, whose object data is the k-th item of the data
\* supplied; past the end of the data an entry gets unset and so resolves
\* the template's default, as the entries added by padding do; the items
\* of data past the number of indices kept make no entry
C30_DataPairing ==
    (last.op = "process" /\ FormdataTruthy(last.fd)) =>
        LET kept == FormIndices(flist, last.fd)
            items == ResolveListData(flist, last.data)[2]
        IN /\ \A k \in 1..(Len(kept) - 1) : kept[k] < kept[k + 1]
           /\ Len(flist.entries) >= Len(kept)
           /\ \A k \in 1..Len(flist.entries) :
                 /\ k <= Len(kept) => flist.entries[k].index = kept[k]
                 /\ flist.entries[k].f.object_data =
                       IF k <= Len(kept) /\ k <= Len(items) THEN items[k]
                       ELSE flist.unbound_field.default

\* three indices and two items of data: the third entry resolved the
\* template's default
C30_Witness ==
    /\ last.op = "process" /\ FormdataTruthy(last.fd)
    /\ last.data = VList(<<ObjFor(1), ObjFor(2)>>)
    /\ Len(flist.entries) = 3
    /\ flist.entries[1].f.object_data = ObjFor(1)
    /\ flist.entries[2].f.object_data = ObjFor(2)
    /\ flist.entries[3].index = 2
    /\ flist.entries[3].f.object_data = VStr(<<"d">>)


(* Properties of the constructors of the enclosing fields, under SpecBind *)

\* the descriptor the last bind call was made on
LastBound == unbound.descriptors[last.data.descriptor].u

\* C22: constructing a FormField with filters or with validators, or a
\* FieldList with filters, raises TypeError and returns no field; and
\* FormField.validate with extra validators raises TypeError and returns
\* nothing
C22_ConfigurationErrors ==
    /\ (subject = "unbound" /\ last.op = "bind") =>
          /\ (LastBound.kind = "FormField"
              /\ (LastBound.filters # <<>> \/ LastBound.validators # <<>>)) =>
                (last.exc = TypeError /\ last.ret = None /\ ffield = NoFormField)
          /\ (LastBound.kind = "FieldList" /\ LastBound.filters # <<>>) =>
                (last.exc = TypeError /\ last.ret = None)
    /\ (subject = "unbound" /\ last.op = "validate" /\ last.extra # <<>>) =>
          (last.exc = TypeError /\ ~last.ok)

\* a FormField declared with a validator and no filter was bound: the
\* constructor raised
C22_Witness ==
    /\ subject = "unbound" /\ last.op = "bind"
    /\ LastBound.kind = "FormField"
    /\ LastBound.filters = <<>> /\ LastBound.validators = <<vErr>>
    /\ last.exc = TypeError /\ last.ret = None


(* Concurrent get_translations calls on the cache of the class: the        *)
(* specification SpecCache.  A thread can be preempted between the lookup  *)
(* in the cache and the insertion, the two accesses to the shared dict.    *)

Threads == 1..MaxThreads

\* the locales of the metas the calls are made on
LocaleSettings == {LocalesFalse, <<>>, <<"en">>, <<"en", "de">>}

\* the keys of the cache
CacheKeys == {CacheKey(l) : l \in LocaleSettings \ {LocalesFalse}}

\* the module is imported: the cache is empty and no call is under way
InitCache ==
    /\ last = NoCall
    /\ subject = "meta"
    /\ cache = [k \in CacheKeys |-> None]
    /\ threads = [t \in Threads |-> Idle]
    /\ field = NoField /\ flist = NoList /\ ffield = NoFormField
    /\ unbound = NoUnbound /\ formdata = NoObject

\* thread t calls get_translations and runs up to the lookup
BeginCall(t) ==
    /\ subject = "meta"
    /\ threads[t].pc \in {"idle", "done"}
    /\ \E locales \in LocaleSettings, cached \in BOOLEAN :
          threads' = [threads EXCEPT ![t] = GetTranslationsBegin(cache, t, locales, cached)]
    /\ UNCHANGED <<cache, subject, field, flist, ffield, unbound, formdata, last>>

\* thread t, which found nothing, computes the translations, stores them and
\* returns
StoreCall(t) ==
    /\ subject = "meta"
    /\ threads[t].pc = "missed"
    /\ threads' = [threads EXCEPT ![t] = GetTranslationsStore(cache, t, threads[t]).thread]
    /\ cache' = GetTranslationsStore(cache, t, threads[t]).cache
    /\ UNCHANGED <<subject, field, flist, ffield, unbound, formdata, last>>

NextCache ==
    \/ \E t \in Threads : BeginCall(t)
    \/ \E t \in Threads : StoreCall(t)

SpecCache == InitCache /\ [][NextCache]_vars

\* the languages of a meta with these locales: none for empty locales
LanguagesOf(locales) == IF Len(locales) = 0 THEN None ELSE locales

\* x is a translations object computed for languages
ComputedFor(x, languages) == Len(x) = 3 /\ x[1] = "translations" /\ x[2] = languages

\* C21: under every interleaving of get_translations calls on the shared
\* cache, a call on a meta with locales returns a translations object
\* computed for those locales, every entry of the cache holds an object
\* computed for its key, and a thread that stored over an entry another
\* thread had inserted meanwhile replaced it with an object computed for
\* the same key
C21_CacheCoherent ==
    subject = "meta" =>
        /\ \A t \in Threads :
              (threads[t].pc = "done" /\ threads[t].locales # LocalesFalse) =>
                  /\ ComputedFor(threads[t].ret,
                                 IF threads[t].cached THEN LanguagesOf(threads[t].locales)
                                 ELSE threads[t].locales)
                  /\ threads[t].replaced # None =>
                        /\ ComputedFor(threads[t].replaced, LanguagesOf(threads[t].locales))
                        /\ ComputedFor(cache[LanguagesOf(threads[t].locales)],
                                       LanguagesOf(threads[t].locales))
        /\ \A k \in DOMAIN cache : cache[k] # None => ComputedFor(cache[k], k)

\* both threads missed the key ("en", "de"), both computed and stored: the
\* second store replaced the object of thread 1, which thread 1 returned
C21_Witness ==
    /\ subject = "meta"
    /\ threads[1].pc = "done" /\ threads[2].pc = "done"
    /\ threads[1].locales = <<"en", "de">> /\ threads[2].locales = <<"en", "de">>
    /\ threads[1].ret = <<"translations", <<"en", "de">>, 1>>
    /\ threads[2].replaced = <<"translations", <<"en", "de">>, 1>>
    /\ cache[<<"en", "de">>] = <<"translations", <<"en", "de">>, 2>>


(* Properties of the indices of a FieldList, under SpecList *)

\* the number of entries process(fd, data) makes before it pads
Materialized(l, fd, data) ==
    IF FormdataTruthy(fd) THEN Len(FormIndices(l, fd))
    ELSE Len(ResolveListData(l, data)[2])

\* C31 as stated: the entries process adds to reach min_entries are
\* processed with no formdata and no object data, so each holds the
\* default of the template and no raw data, also when the list was
\* processed with formdata.  The padding hands the list's formdata on to
\* the entry
C31_PaddingDefaultInitialized ==
    (last.op = "process" /\ last.exc = NoExc) =>
        \A i \in (Materialized(flist, last.fd, last.data) + 1)..Len(flist.entries) :
            /\ flist.entries[i].f.object_data = flist.unbound_field.default
            /\ flist.entries[i].f.data = flist.unbound_field.default
            /\ flist.entries[i].f.raw_data = NoRaw

\* C32 as stated: process without formdata makes one entry per item of
\* data, entry i with index i and name <list-name>-<i>, counting from 0,
\* whatever calls were made on the list before.  process counts on from
\* the last_index the earlier calls left
C32_SequentialFromZero ==
    (last.op = "process" /\ last.fd = NoFormdata /\ last.exc = NoExc) =>
        /\ Len(flist.entries) >= Len(ResolveListData(flist, last.data)[2])
        /\ \A i \in 1..Len(ResolveListData(flist, last.data)[2]) :
              /\ flist.entries[i].index = i - 1
              /\ flist.entries[i].f.name = ListName(flist) \o <<"-">> \o IntToStr(i - 1)
              /\ flist.entries[i].f.object_data = ResolveListData(flist, last.data)[2][i]

\* C34: in every state that process, append_entry and pop_entry reach, the
\* indices of the entries are strictly increasing along entries,
\* last_index >= -1 and last_index is at least the index of every entry;
\* so the names of the entries are pairwise distinct, and the entry
\* append_entry adds has a name no other entry of the list has
C34_IndicesIncrease ==
    subject = "list" =>
        /\ \A i \in 1..(Len(flist.entries) - 1) :
              flist.entries[i].index < flist.entries[i + 1].index
        /\ flist.last_index >= -1
        /\ \A i \in 1..Len(flist.entries) :
              /\ flist.entries[i].index <= flist.last_index
              /\ flist.entries[i].f.name = EntryName(flist, flist.entries[i].index)
        /\ \A i, j \in 1..Len(flist.entries) :
              i # j => flist.entries[i].f.name # flist.entries[j].f.name

\* append_entry added an entry to a list that pop_entry had shortened: the
\* indices have a gap and the new entry has the highest
C34_Witness ==
    /\ subject = "list" /\ last.op = "append_entry" /\ last.exc = NoExc
    /\ Len(flist.entries) = 2
    /\ flist.entries[1].index = 0 /\ flist.entries[2].index = 2
    /\ flist.last_index = 2

(* The indices of a FieldList with their history: the specification        *)
(* SpecIndex                                                               *)

\* the FieldLists declared: with and without min_entries, and with
\* max_entries left at None or set to 0, 1 or 2
IndexDecls ==
    {NewFieldList(sP, <<>>, UnboundField("String", <<>>, <<>>, None), mn, mx, <<>>) :
        mn \in {0, 1}, mx \in {NoCap, VInt(0), VInt(1), VInt(2)}}

\* the formdata and the object data handed to them
IndexFormdatas ==
    {NoFormdata, Formdata(IndexPairs({0})), Formdata(IndexPairs({2})),
     Formdata(IndexPairs({0, 1, 2}))}
IndexData == {Unset, VList(<<ObjFor(1)>>), VList(<<ObjFor(1), ObjFor(2)>>)}

\* a FieldList is constructed: no entry was given an index
InitIndex ==
    /\ last = [NoCall EXCEPT !.high = <<-1>>]
    /\ cache = NoCache /\ threads = NoThreads
    /\ unbound = NoUnbound /\ formdata = NoObject
    /\ subject = "list" /\ flist \in IndexDecls
    /\ field = NoField /\ ffield = NoFormField

ProcessIndexed == ProcessListWith(IndexFormdatas, IndexData)

NextIndex ==
    \/ ProcessIndexed
    \/ AppendEntryCall
    \/ PopEntryCall

SpecIndex == InitIndex /\ [][NextIndex]_vars

\* C33 as stated: in every state that process, append_entry and pop_entry
\* reach, last_index is the highest index an entry of the list was ever
\* given, -1 before any entry is added.  pop_entry lowers last_index, and
\* process with formdata sets it to the highest index of the keys
C33_LastIndexIsHighest ==
    subject = "list" => flist.last_index = last.high[1]


\* the list holds max_entries entries, at least one
Full(l) == Truthy(l.max_entries) /\ Len(l.entries) = l.max_entries[2]

\* C35: append_entry on a FieldList that holds max_entries entries raises
\* and leaves entries and last_index as they were; an append_entry that
\* directly follows a pop_entry succeeds and adds one entry
C35_FullListRefuses ==
    [][/\ (last'.op = "append_entry" /\ Full(flist)) =>
             /\ last'.exc = AssertionError
             /\ flist'.entries = flist.entries
             /\ flist'.last_index = flist.last_index
       /\ (last.op = "pop_entry" /\ last.exc = NoExc /\ last'.op = "append_entry") =>
             /\ last'.exc = NoExc
             /\ Len(flist'.entries) = Len(flist.entries) + 1
             /\ SubSeq(flist'.entries, 1, Len(flist.entries)) = flist.entries]_vars

\* append_entry was refused on a full list of two entries
C35_Witness ==
    /\ subject = "list" /\ last.op = "append_entry" /\ last.exc = AssertionError
    /\ flist.max_entries = VInt(2) /\ Full(flist)
    /\ flist.entries[1].index = 0 /\ flist.entries[2].index = 1
    /\ flist.last_index = 1

====
